---- MODULE Spec2Model ----
(***************************************************************************)
(* Patient-intake phone bot (examples/phone-chatbot/daily-twilio-sip-      *)
(* dial-in): the conversation flow of bot.py, its handlers, and the        *)
(* collaborators in utils/ (address validator, date converter, email       *)
(* sender).                                                                *)
(*                                                                         *)
(* Text that the code inspects character by character (appointment         *)
(* choices, custom times, relative dates) is a sequence of one-character   *)
(* strings; text the code only stores and passes on (names, addresses,     *)
(* prompts) is an atomic string.                                           *)
(***************************************************************************)
EXTENDS Integers, Sequences, FiniteSets, TLC

(***************************************************************************)
(* Bounds of the model.                                                    *)
(***************************************************************************)
\* collect_address attempts the validator may judge invalid in one call
MaxRetries == 2

(***************************************************************************)
(* Python text primitives used by the code.                                *)
(***************************************************************************)
DigitChars == <<"0","1","2","3","4","5","6","7","8","9">>

\* A text is a sequence of characters.  A character is the one-character string
\* where a TLA+ string can hold it, and otherwise the string "U+" followed by
\* its code point in hexadecimal ("U+0253"); the tables below are the Unicode
\* tables of CPython 3.11 over all code points.

\* str.lower() on one character: the characters it changes to one other
\* character, in code point order (as a sequence and as a set), and what it
\* makes of each
LowerLetters ==
    LET from ==
          <<
            "A", "B", "C", "D", "E", "F", "G", "H", "I", "J", "K", "L", "M", "N", "O", "P",
            "Q", "R", "S", "T", "U", "V", "W", "X", "Y", "Z", "À", "Á", "Â", "Ã", "Ä", "Å",
            "Æ", "Ç", "È", "É", "Ê", "Ë", "Ì", "Í", "Î", "Ï", "Ð", "Ñ", "Ò", "Ó", "Ô", "Õ",
            "Ö", "Ø", "Ù", "Ú", "Û", "Ü", "Ý", "Þ", "U+0100", "U+0102", "U+0104", "U+0106", "U+0108", "U+010A", "U+010C", "U+010E",
            "U+0110", "U+0112", "U+0114", "U+0116", "U+0118", "U+011A", "U+011C", "U+011E", "U+0120", "U+0122", "U+0124", "U+0126", "U+0128", "U+012A", "U+012C", "U+012E",
            "U+0132", "U+0134", "U+0136", "U+0139", "U+013B", "U+013D", "U+013F", "U+0141", "U+0143", "U+0145", "U+0147", "U+014A", "U+014C", "U+014E", "U+0150", "U+0152",
            "U+0154", "U+0156", "U+0158", "U+015A", "U+015C", "U+015E", "U+0160", "U+0162", "U+0164", "U+0166", "U+0168", "U+016A", "U+016C", "U+016E", "U+0170", "U+0172",
            "U+0174", "U+0176", "U+0178", "U+0179", "U+017B", "U+017D", "Ɓ", "Ƃ", "Ƅ", "Ɔ", "Ƈ", "Ɖ", "Ɗ", "Ƌ", "Ǝ", "Ə",
            "Ɛ", "Ƒ", "Ɠ", "Ɣ", "Ɩ", "Ɨ", "Ƙ", "Ɯ", "Ɲ", "Ɵ", "Ơ", "Ƣ", "Ƥ", "Ʀ", "Ƨ", "Ʃ",
            "Ƭ", "Ʈ", "Ư", "Ʊ", "Ʋ", "Ƴ", "Ƶ", "Ʒ", "Ƹ", "Ƽ", "Ǆ", "ǅ", "Ǉ", "ǈ", "Ǌ", "ǋ",
            "Ǎ", "Ǐ", "Ǒ", "Ǔ", "Ǖ", "Ǘ", "Ǚ", "Ǜ", "Ǟ", "Ǡ", "Ǣ", "Ǥ", "Ǧ", "Ǩ", "Ǫ", "Ǭ",
            "Ǯ", "Ǳ", "ǲ", "Ǵ", "Ƕ", "Ƿ", "Ǹ", "Ǻ", "Ǽ", "Ǿ", "U+0200", "U+0202", "U+0204", "U+0206", "U+0208", "U+020A",
            "U+020C", "U+020E", "U+0210", "U+0212", "U+0214", "U+0216", "U+0218", "U+021A", "U+021C", "U+021E", "U+0220", "U+0222", "U+0224", "U+0226", "U+0228", "U+022A",
            "U+022C", "U+022E", "U+0230", "U+0232", "U+023A", "U+023B", "U+023D", "U+023E", "U+0241", "U+0243", "U+0244", "U+0245", "U+0246", "U+0248", "U+024A", "U+024C",
            "U+024E", "U+0370", "U+0372", "U+0376", "U+037F", "Ά", "Έ", "Ή", "Ί", "Ό", "Ύ", "Ώ", "Α", "Β", "Γ", "Δ",
            "Ε", "Ζ", "Η", "Θ", "Ι", "Κ", "Λ", "Μ", "Ν", "Ξ", "Ο", "Π", "Ρ", "Σ", "Τ", "Υ",
            "Φ", "Χ", "Ψ", "Ω", "Ϊ", "Ϋ", "Ϗ", "Ϙ", "Ϛ", "Ϝ", "Ϟ", "Ϡ", "Ϣ", "Ϥ", "Ϧ", "Ϩ",
            "Ϫ", "Ϭ", "Ϯ", "ϴ", "Ϸ", "Ϲ", "Ϻ", "Ͻ", "Ͼ", "Ͽ", "U+0400", "U+0401", "U+0402", "U+0403", "U+0404", "U+0405",
            "U+0406", "U+0407", "U+0408", "U+0409", "U+040A", "U+040B", "U+040C", "U+040D", "U+040E", "U+040F", "U+0410", "U+0411", "U+0412", "U+0413", "U+0414", "U+0415",
            "U+0416", "U+0417", "U+0418", "U+0419", "U+041A", "U+041B", "U+041C", "U+041D", "U+041E", "U+041F", "U+0420", "U+0421", "U+0422", "U+0423", "U+0424", "U+0425",
            "U+0426", "U+0427", "U+0428", "U+0429", "U+042A", "U+042B", "U+042C", "U+042D", "U+042E", "U+042F", "U+0460", "U+0462", "U+0464", "U+0466", "U+0468", "U+046A",
            "U+046C", "U+046E", "U+0470", "U+0472", "U+0474", "U+0476", "U+0478", "U+047A", "U+047C", "U+047E", "Ҁ", "Ҋ", "Ҍ", "Ҏ", "Ґ", "Ғ",
            "Ҕ", "Җ", "Ҙ", "Қ", "Ҝ", "Ҟ", "Ҡ", "Ң", "Ҥ", "Ҧ", "Ҩ", "Ҫ", "Ҭ", "Ү", "Ұ", "Ҳ",
            "Ҵ", "Ҷ", "Ҹ", "Һ", "Ҽ", "Ҿ", "Ӏ", "Ӂ", "Ӄ", "Ӆ", "Ӈ", "Ӊ", "Ӌ", "Ӎ", "Ӑ", "Ӓ",
            "Ӕ", "Ӗ", "Ә", "Ӛ", "Ӝ", "Ӟ", "Ӡ", "Ӣ", "Ӥ", "Ӧ", "Ө", "Ӫ", "Ӭ", "Ӯ", "Ӱ", "Ӳ",
            "Ӵ", "Ӷ", "Ӹ", "Ӻ", "Ӽ", "Ӿ", "U+0500", "U+0502", "U+0504", "U+0506", "U+0508", "U+050A", "U+050C", "U+050E", "U+0510", "U+0512",
            "U+0514", "U+0516", "U+0518", "U+051A", "U+051C", "U+051E", "U+0520", "U+0522", "U+0524", "U+0526", "U+0528", "U+052A", "U+052C", "U+052E", "U+0531", "U+0532",
            "U+0533", "U+0534", "U+0535", "U+0536", "U+0537", "U+0538", "U+0539", "U+053A", "U+053B", "U+053C", "U+053D", "U+053E", "U+053F", "U+0540", "U+0541", "U+0542",
            "U+0543", "U+0544", "U+0545", "U+0546", "U+0547", "U+0548", "U+0549", "U+054A", "U+054B", "U+054C", "U+054D", "U+054E", "U+054F", "U+0550", "U+0551", "U+0552",
            "U+0553", "U+0554", "U+0555", "U+0556", "Ⴀ", "Ⴁ", "Ⴂ", "Ⴃ", "Ⴄ", "Ⴅ", "Ⴆ", "Ⴇ", "Ⴈ", "Ⴉ", "Ⴊ", "Ⴋ",
            "Ⴌ", "Ⴍ", "Ⴎ", "Ⴏ", "Ⴐ", "Ⴑ", "Ⴒ", "Ⴓ", "Ⴔ", "Ⴕ", "Ⴖ", "Ⴗ", "Ⴘ", "Ⴙ", "Ⴚ", "Ⴛ",
            "Ⴜ", "Ⴝ", "Ⴞ", "Ⴟ", "Ⴠ", "Ⴡ", "Ⴢ", "Ⴣ", "Ⴤ", "Ⴥ", "Ⴧ", "Ⴭ", "Ꭰ", "Ꭱ", "Ꭲ", "Ꭳ",
            "Ꭴ", "Ꭵ", "Ꭶ", "Ꭷ", "Ꭸ", "Ꭹ", "Ꭺ", "Ꭻ", "Ꭼ", "Ꭽ", "Ꭾ", "Ꭿ", "Ꮀ", "Ꮁ", "Ꮂ", "Ꮃ",
            "Ꮄ", "Ꮅ", "Ꮆ", "Ꮇ", "Ꮈ", "Ꮉ", "Ꮊ", "Ꮋ", "Ꮌ", "Ꮍ", "Ꮎ", "Ꮏ", "Ꮐ", "Ꮑ", "Ꮒ", "Ꮓ",
            "Ꮔ", "Ꮕ", "Ꮖ", "Ꮗ", "Ꮘ", "Ꮙ", "Ꮚ", "Ꮛ", "Ꮜ", "Ꮝ", "Ꮞ", "Ꮟ", "Ꮠ", "Ꮡ", "Ꮢ", "Ꮣ",
            "Ꮤ", "Ꮥ", "Ꮦ", "Ꮧ", "Ꮨ", "Ꮩ", "Ꮪ", "Ꮫ", "Ꮬ", "Ꮭ", "Ꮮ", "Ꮯ", "Ꮰ", "Ꮱ", "Ꮲ", "Ꮳ",
            "Ꮴ", "Ꮵ", "Ꮶ", "Ꮷ", "Ꮸ", "Ꮹ", "Ꮺ", "Ꮻ", "Ꮼ", "Ꮽ", "Ꮾ", "Ꮿ", "Ᏸ", "Ᏹ", "Ᏺ", "Ᏻ",
            "Ᏼ", "Ᏽ", "Ა", "Ბ", "Გ", "Დ", "Ე", "Ვ", "Ზ", "Თ", "Ი", "Კ", "Ლ", "Მ", "Ნ", "Ო",
            "Პ", "Ჟ", "Რ", "Ს", "Ტ", "Უ", "Ფ", "Ქ", "Ღ", "Ყ", "Შ", "Ჩ", "Ც", "Ძ", "Წ", "Ჭ",
            "Ხ", "Ჯ", "Ჰ", "Ჱ", "Ჲ", "Ჳ", "Ჴ", "Ჵ", "Ჶ", "Ჷ", "Ჸ", "Ჹ", "Ჺ", "Ჽ", "Ჾ", "Ჿ",
            "U+1E00", "U+1E02", "U+1E04", "U+1E06", "U+1E08", "U+1E0A", "U+1E0C", "U+1E0E", "U+1E10", "U+1E12", "U+1E14", "U+1E16", "U+1E18", "U+1E1A", "U+1E1C", "U+1E1E",
            "U+1E20", "U+1E22", "U+1E24", "U+1E26", "U+1E28", "U+1E2A", "U+1E2C", "U+1E2E", "U+1E30", "U+1E32", "U+1E34", "U+1E36", "U+1E38", "U+1E3A", "U+1E3C", "U+1E3E",
            "U+1E40", "U+1E42", "U+1E44", "U+1E46", "U+1E48", "U+1E4A", "U+1E4C", "U+1E4E", "U+1E50", "U+1E52", "U+1E54", "U+1E56", "U+1E58", "U+1E5A", "U+1E5C", "U+1E5E",
            "U+1E60", "U+1E62", "U+1E64", "U+1E66", "U+1E68", "U+1E6A", "U+1E6C", "U+1E6E", "U+1E70", "U+1E72", "U+1E74", "U+1E76", "U+1E78", "U+1E7A", "U+1E7C", "U+1E7E",
            "Ẁ", "Ẃ", "Ẅ", "Ẇ", "Ẉ", "Ẋ", "Ẍ", "Ẏ", "Ẑ", "Ẓ", "Ẕ", "ẞ", "Ạ", "Ả", "Ấ", "Ầ",
            "Ẩ", "Ẫ", "Ậ", "Ắ", "Ằ", "Ẳ", "Ẵ", "Ặ", "Ẹ", "Ẻ", "Ẽ", "Ế", "Ề", "Ể", "Ễ", "Ệ",
            "Ỉ", "Ị", "Ọ", "Ỏ", "Ố", "Ồ", "Ổ", "Ỗ", "Ộ", "Ớ", "Ờ", "Ở", "Ỡ", "Ợ", "Ụ", "Ủ",
            "Ứ", "Ừ", "Ử", "Ữ", "Ự", "Ỳ", "Ỵ", "Ỷ", "Ỹ", "Ỻ", "Ỽ", "Ỿ", "U+1F08", "U+1F09", "U+1F0A", "U+1F0B",
            "U+1F0C", "U+1F0D", "U+1F0E", "U+1F0F", "U+1F18", "U+1F19", "U+1F1A", "U+1F1B", "U+1F1C", "U+1F1D", "U+1F28", "U+1F29", "U+1F2A", "U+1F2B", "U+1F2C", "U+1F2D",
            "U+1F2E", "U+1F2F", "U+1F38", "U+1F39", "U+1F3A", "U+1F3B", "U+1F3C", "U+1F3D", "U+1F3E", "U+1F3F", "U+1F48", "U+1F49", "U+1F4A", "U+1F4B", "U+1F4C", "U+1F4D",
            "U+1F59", "U+1F5B", "U+1F5D", "U+1F5F", "U+1F68", "U+1F69", "U+1F6A", "U+1F6B", "U+1F6C", "U+1F6D", "U+1F6E", "U+1F6F", "ᾈ", "ᾉ", "ᾊ", "ᾋ",
            "ᾌ", "ᾍ", "ᾎ", "ᾏ", "ᾘ", "ᾙ", "ᾚ", "ᾛ", "ᾜ", "ᾝ", "ᾞ", "ᾟ", "ᾨ", "ᾩ", "ᾪ", "ᾫ",
            "ᾬ", "ᾭ", "ᾮ", "ᾯ", "Ᾰ", "Ᾱ", "Ὰ", "Ά", "ᾼ", "Ὲ", "Έ", "Ὴ", "Ή", "ῌ", "Ῐ", "Ῑ",
            "Ὶ", "Ί", "Ῠ", "Ῡ", "Ὺ", "Ύ", "Ῥ", "Ὸ", "Ό", "Ὼ", "Ώ", "ῼ", "U+2126", "U+212A", "U+212B", "U+2132",
            "U+2160", "U+2161", "U+2162", "U+2163", "U+2164", "U+2165", "U+2166", "U+2167", "U+2168", "U+2169", "U+216A", "U+216B", "U+216C", "U+216D", "U+216E", "U+216F",
            "Ↄ", "Ⓐ", "Ⓑ", "Ⓒ", "Ⓓ", "Ⓔ", "Ⓕ", "Ⓖ", "Ⓗ", "Ⓘ", "Ⓙ", "Ⓚ", "Ⓛ", "Ⓜ", "Ⓝ", "Ⓞ",
            "Ⓟ", "Ⓠ", "Ⓡ", "Ⓢ", "Ⓣ", "Ⓤ", "Ⓥ", "Ⓦ", "Ⓧ", "Ⓨ", "Ⓩ", "U+2C00", "U+2C01", "U+2C02", "U+2C03", "U+2C04",
            "U+2C05", "U+2C06", "U+2C07", "U+2C08", "U+2C09", "U+2C0A", "U+2C0B", "U+2C0C", "U+2C0D", "U+2C0E", "U+2C0F", "U+2C10", "U+2C11", "U+2C12", "U+2C13", "U+2C14",
            "U+2C15", "U+2C16", "U+2C17", "U+2C18", "U+2C19", "U+2C1A", "U+2C1B", "U+2C1C", "U+2C1D", "U+2C1E", "U+2C1F", "U+2C20", "U+2C21", "U+2C22", "U+2C23", "U+2C24",
            "U+2C25", "U+2C26", "U+2C27", "U+2C28", "U+2C29", "U+2C2A", "U+2C2B", "U+2C2C", "U+2C2D", "U+2C2E", "U+2C2F", "U+2C60", "U+2C62", "U+2C63", "U+2C64", "U+2C67",
            "U+2C69", "U+2C6B", "U+2C6D", "U+2C6E", "U+2C6F", "U+2C70", "U+2C72", "U+2C75", "U+2C7E", "U+2C7F", "Ⲁ", "Ⲃ", "Ⲅ", "Ⲇ", "Ⲉ", "Ⲋ",
            "Ⲍ", "Ⲏ", "Ⲑ", "Ⲓ", "Ⲕ", "Ⲗ", "Ⲙ", "Ⲛ", "Ⲝ", "Ⲟ", "Ⲡ", "Ⲣ", "Ⲥ", "Ⲧ", "Ⲩ", "Ⲫ",
            "Ⲭ", "Ⲯ", "Ⲱ", "Ⲳ", "Ⲵ", "Ⲷ", "Ⲹ", "Ⲻ", "Ⲽ", "Ⲿ", "Ⳁ", "Ⳃ", "Ⳅ", "Ⳇ", "Ⳉ", "Ⳋ",
            "Ⳍ", "Ⳏ", "Ⳑ", "Ⳓ", "Ⳕ", "Ⳗ", "Ⳙ", "Ⳛ", "Ⳝ", "Ⳟ", "Ⳡ", "Ⳣ", "Ⳬ", "Ⳮ", "Ⳳ", "U+A640",
            "U+A642", "U+A644", "U+A646", "U+A648", "U+A64A", "U+A64C", "U+A64E", "U+A650", "U+A652", "U+A654", "U+A656", "U+A658", "U+A65A", "U+A65C", "U+A65E", "U+A660",
            "U+A662", "U+A664", "U+A666", "U+A668", "U+A66A", "U+A66C", "Ꚁ", "Ꚃ", "Ꚅ", "Ꚇ", "Ꚉ", "Ꚋ", "Ꚍ", "Ꚏ", "Ꚑ", "Ꚓ",
            "Ꚕ", "Ꚗ", "Ꚙ", "Ꚛ", "U+A722", "U+A724", "U+A726", "U+A728", "U+A72A", "U+A72C", "U+A72E", "U+A732", "U+A734", "U+A736", "U+A738", "U+A73A",
            "U+A73C", "U+A73E", "U+A740", "U+A742", "U+A744", "U+A746", "U+A748", "U+A74A", "U+A74C", "U+A74E", "U+A750", "U+A752", "U+A754", "U+A756", "U+A758", "U+A75A",
            "U+A75C", "U+A75E", "U+A760", "U+A762", "U+A764", "U+A766", "U+A768", "U+A76A", "U+A76C", "U+A76E", "U+A779", "U+A77B", "U+A77D", "U+A77E", "Ꞁ", "Ꞃ",
            "Ꞅ", "Ꞇ", "Ꞌ", "Ɥ", "Ꞑ", "Ꞓ", "Ꞗ", "Ꞙ", "Ꞛ", "Ꞝ", "Ꞟ", "Ꞡ", "Ꞣ", "Ꞥ", "Ꞧ", "Ꞩ",
            "Ɦ", "Ɜ", "Ɡ", "Ɬ", "Ɪ", "Ʞ", "Ʇ", "Ʝ", "Ꭓ", "Ꞵ", "Ꞷ", "Ꞹ", "Ꞻ", "Ꞽ", "Ꞿ", "Ꟁ",
            "Ꟃ", "Ꞔ", "Ʂ", "Ᶎ", "Ꟈ", "Ꟊ", "Ꟑ", "Ꟗ", "Ꟙ", "Ꟶ", "U+FF21", "U+FF22", "U+FF23", "U+FF24", "U+FF25", "U+FF26",
            "U+FF27", "U+FF28", "U+FF29", "U+FF2A", "U+FF2B", "U+FF2C", "U+FF2D", "U+FF2E", "U+FF2F", "U+FF30", "U+FF31", "U+FF32", "U+FF33", "U+FF34", "U+FF35", "U+FF36",
            "U+FF37", "U+FF38", "U+FF39", "U+FF3A", "U+10400", "U+10401", "U+10402", "U+10403", "U+10404", "U+10405", "U+10406", "U+10407", "U+10408", "U+10409", "U+1040A", "U+1040B",
            "U+1040C", "U+1040D", "U+1040E", "U+1040F", "U+10410", "U+10411", "U+10412", "U+10413", "U+10414", "U+10415", "U+10416", "U+10417", "U+10418", "U+10419", "U+1041A", "U+1041B",
            "U+1041C", "U+1041D", "U+1041E", "U+1041F", "U+10420", "U+10421", "U+10422", "U+10423", "U+10424", "U+10425", "U+10426", "U+10427", "U+104B0", "U+104B1", "U+104B2", "U+104B3",
            "U+104B4", "U+104B5", "U+104B6", "U+104B7", "U+104B8", "U+104B9", "U+104BA", "U+104BB", "U+104BC", "U+104BD", "U+104BE", "U+104BF", "U+104C0", "U+104C1", "U+104C2", "U+104C3",
            "U+104C4", "U+104C5", "U+104C6", "U+104C7", "U+104C8", "U+104C9", "U+104CA", "U+104CB", "U+104CC", "U+104CD", "U+104CE", "U+104CF", "U+104D0", "U+104D1", "U+104D2", "U+104D3",
            "U+10570", "U+10571", "U+10572", "U+10573", "U+10574", "U+10575", "U+10576", "U+10577", "U+10578", "U+10579", "U+1057A", "U+1057C", "U+1057D", "U+1057E", "U+1057F", "U+10580",
            "U+10581", "U+10582", "U+10583", "U+10584", "U+10585", "U+10586", "U+10587", "U+10588", "U+10589", "U+1058A", "U+1058C", "U+1058D", "U+1058E", "U+1058F", "U+10590", "U+10591",
            "U+10592", "U+10594", "U+10595", "U+10C80", "U+10C81", "U+10C82", "U+10C83", "U+10C84", "U+10C85", "U+10C86", "U+10C87", "U+10C88", "U+10C89", "U+10C8A", "U+10C8B", "U+10C8C",
            "U+10C8D", "U+10C8E", "U+10C8F", "U+10C90", "U+10C91", "U+10C92", "U+10C93", "U+10C94", "U+10C95", "U+10C96", "U+10C97", "U+10C98", "U+10C99", "U+10C9A", "U+10C9B", "U+10C9C",
            "U+10C9D", "U+10C9E", "U+10C9F", "U+10CA0", "U+10CA1", "U+10CA2", "U+10CA3", "U+10CA4", "U+10CA5", "U+10CA6", "U+10CA7", "U+10CA8", "U+10CA9", "U+10CAA", "U+10CAB", "U+10CAC",
            "U+10CAD", "U+10CAE", "U+10CAF", "U+10CB0", "U+10CB1", "U+10CB2", "U+118A0", "U+118A1", "U+118A2", "U+118A3", "U+118A4", "U+118A5", "U+118A6", "U+118A7", "U+118A8", "U+118A9",
            "U+118AA", "U+118AB", "U+118AC", "U+118AD", "U+118AE", "U+118AF", "U+118B0", "U+118B1", "U+118B2", "U+118B3", "U+118B4", "U+118B5", "U+118B6", "U+118B7", "U+118B8", "U+118B9",
            "U+118BA", "U+118BB", "U+118BC", "U+118BD", "U+118BE", "U+118BF", "U+16E40", "U+16E41", "U+16E42", "U+16E43", "U+16E44", "U+16E45", "U+16E46", "U+16E47", "U+16E48", "U+16E49",
            "U+16E4A", "U+16E4B", "U+16E4C", "U+16E4D", "U+16E4E", "U+16E4F", "U+16E50", "U+16E51", "U+16E52", "U+16E53", "U+16E54", "U+16E55", "U+16E56", "U+16E57", "U+16E58", "U+16E59",
            "U+16E5A", "U+16E5B", "U+16E5C", "U+16E5D", "U+16E5E", "U+16E5F", "U+1E900", "U+1E901", "U+1E902", "U+1E903", "U+1E904", "U+1E905", "U+1E906", "U+1E907", "U+1E908", "U+1E909",
            "U+1E90A", "U+1E90B", "U+1E90C", "U+1E90D", "U+1E90E", "U+1E90F", "U+1E910", "U+1E911", "U+1E912", "U+1E913", "U+1E914", "U+1E915", "U+1E916", "U+1E917", "U+1E918", "U+1E919",
            "U+1E91A", "U+1E91B", "U+1E91C", "U+1E91D", "U+1E91E", "U+1E91F", "U+1E920", "U+1E921"
          >>
        to ==
          <<
            "a", "b", "c", "d", "e", "f", "g", "h", "i", "j", "k", "l", "m", "n", "o", "p",
            "q", "r", "s", "t", "u", "v", "w", "x", "y", "z", "à", "á", "â", "ã", "ä", "å",
            "æ", "ç", "è", "é", "ê", "ë", "ì", "í", "î", "ï", "ð", "ñ", "ò", "ó", "ô", "õ",
            "ö", "ø", "ù", "ú", "û", "ü", "ý", "þ", "U+0101", "U+0103", "U+0105", "U+0107", "U+0109", "U+010B", "U+010D", "U+010F",
            "U+0111", "U+0113", "U+0115", "U+0117", "U+0119", "U+011B", "U+011D", "U+011F", "U+0121", "U+0123", "U+0125", "U+0127", "U+0129", "U+012B", "U+012D", "U+012F",
            "U+0133", "U+0135", "U+0137", "U+013A", "U+013C", "U+013E", "U+0140", "U+0142", "U+0144", "U+0146", "U+0148", "U+014B", "U+014D", "U+014F", "U+0151", "U+0153",
            "U+0155", "U+0157", "U+0159", "U+015B", "U+015D", "U+015F", "U+0161", "U+0163", "U+0165", "U+0167", "U+0169", "U+016B", "U+016D", "U+016F", "U+0171", "U+0173",
            "U+0175", "U+0177", "ÿ", "U+017A", "U+017C", "U+017E", "U+0253", "ƃ", "ƅ", "U+0254", "ƈ", "U+0256", "U+0257", "ƌ", "ǝ", "U+0259",
            "U+025B", "ƒ", "U+0260", "U+0263", "U+0269", "U+0268", "ƙ", "U+026F", "U+0272", "U+0275", "ơ", "ƣ", "ƥ", "ʀ", "ƨ", "ʃ",
            "ƭ", "ʈ", "ư", "ʊ", "ʋ", "ƴ", "ƶ", "ʒ", "ƹ", "ƽ", "ǆ", "ǆ", "ǉ", "ǉ", "ǌ", "ǌ",
            "ǎ", "ǐ", "ǒ", "ǔ", "ǖ", "ǘ", "ǚ", "ǜ", "ǟ", "ǡ", "ǣ", "ǥ", "ǧ", "ǩ", "ǫ", "ǭ",
            "ǯ", "ǳ", "ǳ", "ǵ", "ƕ", "ƿ", "ǹ", "ǻ", "ǽ", "ǿ", "U+0201", "U+0203", "U+0205", "U+0207", "U+0209", "U+020B",
            "U+020D", "U+020F", "U+0211", "U+0213", "U+0215", "U+0217", "U+0219", "U+021B", "U+021D", "U+021F", "ƞ", "U+0223", "U+0225", "U+0227", "U+0229", "U+022B",
            "U+022D", "U+022F", "U+0231", "U+0233", "U+2C65", "U+023C", "ƚ", "U+2C66", "U+0242", "ƀ", "ʉ", "ʌ", "U+0247", "U+0249", "U+024B", "U+024D",
            "U+024F", "U+0371", "U+0373", "U+0377", "ϳ", "ά", "έ", "ή", "ί", "ό", "ύ", "ώ", "α", "β", "γ", "δ",
            "ε", "ζ", "η", "θ", "ι", "κ", "λ", "μ", "ν", "ξ", "ο", "π", "ρ", "σ", "τ", "υ",
            "φ", "χ", "ψ", "ω", "ϊ", "ϋ", "ϗ", "ϙ", "ϛ", "ϝ", "ϟ", "ϡ", "ϣ", "ϥ", "ϧ", "ϩ",
            "ϫ", "ϭ", "ϯ", "θ", "ϸ", "ϲ", "ϻ", "U+037B", "U+037C", "U+037D", "U+0450", "U+0451", "U+0452", "U+0453", "U+0454", "U+0455",
            "U+0456", "U+0457", "U+0458", "U+0459", "U+045A", "U+045B", "U+045C", "U+045D", "U+045E", "U+045F", "U+0430", "U+0431", "U+0432", "U+0433", "U+0434", "U+0435",
            "U+0436", "U+0437", "U+0438", "U+0439", "U+043A", "U+043B", "U+043C", "U+043D", "U+043E", "U+043F", "U+0440", "U+0441", "U+0442", "U+0443", "U+0444", "U+0445",
            "U+0446", "U+0447", "U+0448", "U+0449", "U+044A", "U+044B", "U+044C", "U+044D", "U+044E", "U+044F", "U+0461", "U+0463", "U+0465", "U+0467", "U+0469", "U+046B",
            "U+046D", "U+046F", "U+0471", "U+0473", "U+0475", "U+0477", "U+0479", "U+047B", "U+047D", "U+047F", "ҁ", "ҋ", "ҍ", "ҏ", "ґ", "ғ",
            "ҕ", "җ", "ҙ", "қ", "ҝ", "ҟ", "ҡ", "ң", "ҥ", "ҧ", "ҩ", "ҫ", "ҭ", "ү", "ұ", "ҳ",
            "ҵ", "ҷ", "ҹ", "һ", "ҽ", "ҿ", "ӏ", "ӂ", "ӄ", "ӆ", "ӈ", "ӊ", "ӌ", "ӎ", "ӑ", "ӓ",
            "ӕ", "ӗ", "ә", "ӛ", "ӝ", "ӟ", "ӡ", "ӣ", "ӥ", "ӧ", "ө", "ӫ", "ӭ", "ӯ", "ӱ", "ӳ",
            "ӵ", "ӷ", "ӹ", "ӻ", "ӽ", "ӿ", "U+0501", "U+0503", "U+0505", "U+0507", "U+0509", "U+050B", "U+050D", "U+050F", "U+0511", "U+0513",
            "U+0515", "U+0517", "U+0519", "U+051B", "U+051D", "U+051F", "U+0521", "U+0523", "U+0525", "U+0527", "U+0529", "U+052B", "U+052D", "U+052F", "U+0561", "U+0562",
            "U+0563", "U+0564", "U+0565", "U+0566", "U+0567", "U+0568", "U+0569", "U+056A", "U+056B", "U+056C", "U+056D", "U+056E", "U+056F", "U+0570", "U+0571", "U+0572",
            "U+0573", "U+0574", "U+0575", "U+0576", "U+0577", "U+0578", "U+0579", "U+057A", "U+057B", "U+057C", "U+057D", "U+057E", "U+057F", "ր", "ց", "ւ",
            "փ", "ք", "օ", "ֆ", "U+2D00", "U+2D01", "U+2D02", "U+2D03", "U+2D04", "U+2D05", "U+2D06", "U+2D07", "U+2D08", "U+2D09", "U+2D0A", "U+2D0B",
            "U+2D0C", "U+2D0D", "U+2D0E", "U+2D0F", "U+2D10", "U+2D11", "U+2D12", "U+2D13", "U+2D14", "U+2D15", "U+2D16", "U+2D17", "U+2D18", "U+2D19", "U+2D1A", "U+2D1B",
            "U+2D1C", "U+2D1D", "U+2D1E", "U+2D1F", "U+2D20", "U+2D21", "U+2D22", "U+2D23", "U+2D24", "U+2D25", "U+2D27", "U+2D2D", "U+AB70", "U+AB71", "U+AB72", "U+AB73",
            "U+AB74", "U+AB75", "U+AB76", "U+AB77", "U+AB78", "U+AB79", "U+AB7A", "U+AB7B", "U+AB7C", "U+AB7D", "U+AB7E", "U+AB7F", "ꮀ", "ꮁ", "ꮂ", "ꮃ",
            "ꮄ", "ꮅ", "ꮆ", "ꮇ", "ꮈ", "ꮉ", "ꮊ", "ꮋ", "ꮌ", "ꮍ", "ꮎ", "ꮏ", "ꮐ", "ꮑ", "ꮒ", "ꮓ",
            "ꮔ", "ꮕ", "ꮖ", "ꮗ", "ꮘ", "ꮙ", "ꮚ", "ꮛ", "ꮜ", "ꮝ", "ꮞ", "ꮟ", "ꮠ", "ꮡ", "ꮢ", "ꮣ",
            "ꮤ", "ꮥ", "ꮦ", "ꮧ", "ꮨ", "ꮩ", "ꮪ", "ꮫ", "ꮬ", "ꮭ", "ꮮ", "ꮯ", "ꮰ", "ꮱ", "ꮲ", "ꮳ",
            "ꮴ", "ꮵ", "ꮶ", "ꮷ", "ꮸ", "ꮹ", "ꮺ", "ꮻ", "ꮼ", "ꮽ", "ꮾ", "ꮿ", "ᏸ", "ᏹ", "ᏺ", "ᏻ",
            "ᏼ", "ᏽ", "ა", "ბ", "გ", "დ", "ე", "ვ", "ზ", "თ", "ი", "კ", "ლ", "მ", "ნ", "ო",
            "პ", "ჟ", "რ", "ს", "ტ", "უ", "ფ", "ქ", "ღ", "ყ", "შ", "ჩ", "ც", "ძ", "წ", "ჭ",
            "ხ", "ჯ", "ჰ", "ჱ", "ჲ", "ჳ", "ჴ", "ჵ", "ჶ", "ჷ", "ჸ", "ჹ", "ჺ", "ჽ", "ჾ", "ჿ",
            "U+1E01", "U+1E03", "U+1E05", "U+1E07", "U+1E09", "U+1E0B", "U+1E0D", "U+1E0F", "U+1E11", "U+1E13", "U+1E15", "U+1E17", "U+1E19", "U+1E1B", "U+1E1D", "U+1E1F",
            "U+1E21", "U+1E23", "U+1E25", "U+1E27", "U+1E29", "U+1E2B", "U+1E2D", "U+1E2F", "U+1E31", "U+1E33", "U+1E35", "U+1E37", "U+1E39", "U+1E3B", "U+1E3D", "U+1E3F",
            "U+1E41", "U+1E43", "U+1E45", "U+1E47", "U+1E49", "U+1E4B", "U+1E4D", "U+1E4F", "U+1E51", "U+1E53", "U+1E55", "U+1E57", "U+1E59", "U+1E5B", "U+1E5D", "U+1E5F",
            "U+1E61", "U+1E63", "U+1E65", "U+1E67", "U+1E69", "U+1E6B", "U+1E6D", "U+1E6F", "U+1E71", "U+1E73", "U+1E75", "U+1E77", "U+1E79", "U+1E7B", "U+1E7D", "U+1E7F",
            "ẁ", "ẃ", "ẅ", "ẇ", "ẉ", "ẋ", "ẍ", "ẏ", "ẑ", "ẓ", "ẕ", "ß", "ạ", "ả", "ấ", "ầ",
            "ẩ", "ẫ", "ậ", "ắ", "ằ", "ẳ", "ẵ", "ặ", "ẹ", "ẻ", "ẽ", "ế", "ề", "ể", "ễ", "ệ",
            "ỉ", "ị", "ọ", "ỏ", "ố", "ồ", "ổ", "ỗ", "ộ", "ớ", "ờ", "ở", "ỡ", "ợ", "ụ", "ủ",
            "ứ", "ừ", "ử", "ữ", "ự", "ỳ", "ỵ", "ỷ", "ỹ", "ỻ", "ỽ", "ỿ", "U+1F00", "U+1F01", "U+1F02", "U+1F03",
            "U+1F04", "U+1F05", "U+1F06", "U+1F07", "U+1F10", "U+1F11", "U+1F12", "U+1F13", "U+1F14", "U+1F15", "U+1F20", "U+1F21", "U+1F22", "U+1F23", "U+1F24", "U+1F25",
            "U+1F26", "U+1F27", "U+1F30", "U+1F31", "U+1F32", "U+1F33", "U+1F34", "U+1F35", "U+1F36", "U+1F37", "U+1F40", "U+1F41", "U+1F42", "U+1F43", "U+1F44", "U+1F45",
            "U+1F51", "U+1F53", "U+1F55", "U+1F57", "U+1F60", "U+1F61", "U+1F62", "U+1F63", "U+1F64", "U+1F65", "U+1F66", "U+1F67", "ᾀ", "ᾁ", "ᾂ", "ᾃ",
            "ᾄ", "ᾅ", "ᾆ", "ᾇ", "ᾐ", "ᾑ", "ᾒ", "ᾓ", "ᾔ", "ᾕ", "ᾖ", "ᾗ", "ᾠ", "ᾡ", "ᾢ", "ᾣ",
            "ᾤ", "ᾥ", "ᾦ", "ᾧ", "ᾰ", "ᾱ", "U+1F70", "U+1F71", "ᾳ", "U+1F72", "U+1F73", "U+1F74", "U+1F75", "ῃ", "ῐ", "ῑ",
            "U+1F76", "U+1F77", "ῠ", "ῡ", "U+1F7A", "U+1F7B", "ῥ", "U+1F78", "U+1F79", "U+1F7C", "U+1F7D", "ῳ", "ω", "k", "å", "U+214E",
            "U+2170", "U+2171", "U+2172", "U+2173", "U+2174", "U+2175", "U+2176", "U+2177", "U+2178", "U+2179", "U+217A", "U+217B", "U+217C", "U+217D", "U+217E", "U+217F",
            "ↄ", "ⓐ", "ⓑ", "ⓒ", "ⓓ", "ⓔ", "ⓕ", "ⓖ", "ⓗ", "ⓘ", "ⓙ", "ⓚ", "ⓛ", "ⓜ", "ⓝ", "ⓞ",
            "ⓟ", "ⓠ", "ⓡ", "ⓢ", "ⓣ", "ⓤ", "ⓥ", "ⓦ", "ⓧ", "ⓨ", "ⓩ", "U+2C30", "U+2C31", "U+2C32", "U+2C33", "U+2C34",
            "U+2C35", "U+2C36", "U+2C37", "U+2C38", "U+2C39", "U+2C3A", "U+2C3B", "U+2C3C", "U+2C3D", "U+2C3E", "U+2C3F", "U+2C40", "U+2C41", "U+2C42", "U+2C43", "U+2C44",
            "U+2C45", "U+2C46", "U+2C47", "U+2C48", "U+2C49", "U+2C4A", "U+2C4B", "U+2C4C", "U+2C4D", "U+2C4E", "U+2C4F", "U+2C50", "U+2C51", "U+2C52", "U+2C53", "U+2C54",
            "U+2C55", "U+2C56", "U+2C57", "U+2C58", "U+2C59", "U+2C5A", "U+2C5B", "U+2C5C", "U+2C5D", "U+2C5E", "U+2C5F", "U+2C61", "U+026B", "U+1D7D", "U+027D", "U+2C68",
            "U+2C6A", "U+2C6C", "U+0251", "U+0271", "U+0250", "U+0252", "U+2C73", "U+2C76", "U+023F", "U+0240", "ⲁ", "ⲃ", "ⲅ", "ⲇ", "ⲉ", "ⲋ",
            "ⲍ", "ⲏ", "ⲑ", "ⲓ", "ⲕ", "ⲗ", "ⲙ", "ⲛ", "ⲝ", "ⲟ", "ⲡ", "ⲣ", "ⲥ", "ⲧ", "ⲩ", "ⲫ",
            "ⲭ", "ⲯ", "ⲱ", "ⲳ", "ⲵ", "ⲷ", "ⲹ", "ⲻ", "ⲽ", "ⲿ", "ⳁ", "ⳃ", "ⳅ", "ⳇ", "ⳉ", "ⳋ",
            "ⳍ", "ⳏ", "ⳑ", "ⳓ", "ⳕ", "ⳗ", "ⳙ", "ⳛ", "ⳝ", "ⳟ", "ⳡ", "ⳣ", "ⳬ", "ⳮ", "ⳳ", "U+A641",
            "U+A643", "U+A645", "U+A647", "U+A649", "U+A64B", "U+A64D", "U+A64F", "U+A651", "U+A653", "U+A655", "U+A657", "U+A659", "U+A65B", "U+A65D", "U+A65F", "U+A661",
            "U+A663", "U+A665", "U+A667", "U+A669", "U+A66B", "U+A66D", "ꚁ", "ꚃ", "ꚅ", "ꚇ", "ꚉ", "ꚋ", "ꚍ", "ꚏ", "ꚑ", "ꚓ",
            "ꚕ", "ꚗ", "ꚙ", "ꚛ", "U+A723", "U+A725", "U+A727", "U+A729", "U+A72B", "U+A72D", "U+A72F", "U+A733", "U+A735", "U+A737", "U+A739", "U+A73B",
            "U+A73D", "U+A73F", "U+A741", "U+A743", "U+A745", "U+A747", "U+A749", "U+A74B", "U+A74D", "U+A74F", "U+A751", "U+A753", "U+A755", "U+A757", "U+A759", "U+A75B",
            "U+A75D", "U+A75F", "U+A761", "U+A763", "U+A765", "U+A767", "U+A769", "U+A76B", "U+A76D", "U+A76F", "U+A77A", "U+A77C", "U+1D79", "U+A77F", "ꞁ", "ꞃ",
            "ꞅ", "ꞇ", "ꞌ", "U+0265", "ꞑ", "ꞓ", "ꞗ", "ꞙ", "ꞛ", "ꞝ", "ꞟ", "ꞡ", "ꞣ", "ꞥ", "ꞧ", "ꞩ",
            "U+0266", "U+025C", "U+0261", "U+026C", "U+026A", "ʞ", "ʇ", "ʝ", "U+AB53", "ꞵ", "ꞷ", "ꞹ", "ꞻ", "ꞽ", "ꞿ", "ꟁ",
            "ꟃ", "ꞔ", "ʂ", "ᶎ", "ꟈ", "ꟊ", "ꟑ", "ꟗ", "ꟙ", "ꟶ", "U+FF41", "U+FF42", "U+FF43", "U+FF44", "U+FF45", "U+FF46",
            "U+FF47", "U+FF48", "U+FF49", "U+FF4A", "U+FF4B", "U+FF4C", "U+FF4D", "U+FF4E", "U+FF4F", "U+FF50", "U+FF51", "U+FF52", "U+FF53", "U+FF54", "U+FF55", "U+FF56",
            "U+FF57", "U+FF58", "U+FF59", "U+FF5A", "U+10428", "U+10429", "U+1042A", "U+1042B", "U+1042C", "U+1042D", "U+1042E", "U+1042F", "U+10430", "U+10431", "U+10432", "U+10433",
            "U+10434", "U+10435", "U+10436", "U+10437", "U+10438", "U+10439", "U+1043A", "U+1043B", "U+1043C", "U+1043D", "U+1043E", "U+1043F", "U+10440", "U+10441", "U+10442", "U+10443",
            "U+10444", "U+10445", "U+10446", "U+10447", "U+10448", "U+10449", "U+1044A", "U+1044B", "U+1044C", "U+1044D", "U+1044E", "U+1044F", "U+104D8", "U+104D9", "U+104DA", "U+104DB",
            "U+104DC", "U+104DD", "U+104DE", "U+104DF", "U+104E0", "U+104E1", "U+104E2", "U+104E3", "U+104E4", "U+104E5", "U+104E6", "U+104E7", "U+104E8", "U+104E9", "U+104EA", "U+104EB",
            "U+104EC", "U+104ED", "U+104EE", "U+104EF", "U+104F0", "U+104F1", "U+104F2", "U+104F3", "U+104F4", "U+104F5", "U+104F6", "U+104F7", "U+104F8", "U+104F9", "U+104FA", "U+104FB",
            "U+10597", "U+10598", "U+10599", "U+1059A", "U+1059B", "U+1059C", "U+1059D", "U+1059E", "U+1059F", "U+105A0", "U+105A1", "U+105A3", "U+105A4", "U+105A5", "U+105A6", "U+105A7",
            "U+105A8", "U+105A9", "U+105AA", "U+105AB", "U+105AC", "U+105AD", "U+105AE", "U+105AF", "U+105B0", "U+105B1", "U+105B3", "U+105B4", "U+105B5", "U+105B6", "U+105B7", "U+105B8",
            "U+105B9", "U+105BB", "U+105BC", "U+10CC0", "U+10CC1", "U+10CC2", "U+10CC3", "U+10CC4", "U+10CC5", "U+10CC6", "U+10CC7", "U+10CC8", "U+10CC9", "U+10CCA", "U+10CCB", "U+10CCC",
            "U+10CCD", "U+10CCE", "U+10CCF", "U+10CD0", "U+10CD1", "U+10CD2", "U+10CD3", "U+10CD4", "U+10CD5", "U+10CD6", "U+10CD7", "U+10CD8", "U+10CD9", "U+10CDA", "U+10CDB", "U+10CDC",
            "U+10CDD", "U+10CDE", "U+10CDF", "U+10CE0", "U+10CE1", "U+10CE2", "U+10CE3", "U+10CE4", "U+10CE5", "U+10CE6", "U+10CE7", "U+10CE8", "U+10CE9", "U+10CEA", "U+10CEB", "U+10CEC",
            "U+10CED", "U+10CEE", "U+10CEF", "U+10CF0", "U+10CF1", "U+10CF2", "U+118C0", "U+118C1", "U+118C2", "U+118C3", "U+118C4", "U+118C5", "U+118C6", "U+118C7", "U+118C8", "U+118C9",
            "U+118CA", "U+118CB", "U+118CC", "U+118CD", "U+118CE", "U+118CF", "U+118D0", "U+118D1", "U+118D2", "U+118D3", "U+118D4", "U+118D5", "U+118D6", "U+118D7", "U+118D8", "U+118D9",
            "U+118DA", "U+118DB", "U+118DC", "U+118DD", "U+118DE", "U+118DF", "U+16E60", "U+16E61", "U+16E62", "U+16E63", "U+16E64", "U+16E65", "U+16E66", "U+16E67", "U+16E68", "U+16E69",
            "U+16E6A", "U+16E6B", "U+16E6C", "U+16E6D", "U+16E6E", "U+16E6F", "U+16E70", "U+16E71", "U+16E72", "U+16E73", "U+16E74", "U+16E75", "U+16E76", "U+16E77", "U+16E78", "U+16E79",
            "U+16E7A", "U+16E7B", "U+16E7C", "U+16E7D", "U+16E7E", "U+16E7F", "U+1E922", "U+1E923", "U+1E924", "U+1E925", "U+1E926", "U+1E927", "U+1E928", "U+1E929", "U+1E92A", "U+1E92B",
            "U+1E92C", "U+1E92D", "U+1E92E", "U+1E92F", "U+1E930", "U+1E931", "U+1E932", "U+1E933", "U+1E934", "U+1E935", "U+1E936", "U+1E937", "U+1E938", "U+1E939", "U+1E93A", "U+1E93B",
            "U+1E93C", "U+1E93D", "U+1E93E", "U+1E93F", "U+1E940", "U+1E941", "U+1E942", "U+1E943"
          >>
    IN  [changed |-> {from[i] : i \in 1..Len(from)}, from |-> from, to |-> to]

\* the decimal digits of \d and int(): runs of ten, each 0 to 9, the
\* ASCII run first, as a sequence and as a set
DecimalDigits ==
    LET digits ==
          <<
            "0", "1", "2", "3", "4", "5", "6", "7", "8", "9",
            "U+0660", "U+0661", "U+0662", "U+0663", "U+0664", "U+0665", "U+0666", "U+0667", "U+0668", "U+0669",
            "۰", "۱", "۲", "۳", "۴", "۵", "۶", "۷", "۸", "۹",
            "߀", "߁", "߂", "߃", "߄", "߅", "߆", "߇", "߈", "߉",
            "U+0966", "U+0967", "U+0968", "U+0969", "U+096A", "U+096B", "U+096C", "U+096D", "U+096E", "U+096F",
            "০", "১", "২", "৩", "৪", "৫", "৬", "৭", "৮", "৯",
            "U+0A66", "U+0A67", "U+0A68", "U+0A69", "U+0A6A", "U+0A6B", "U+0A6C", "U+0A6D", "U+0A6E", "U+0A6F",
            "૦", "૧", "૨", "૩", "૪", "૫", "૬", "૭", "૮", "૯",
            "U+0B66", "U+0B67", "U+0B68", "U+0B69", "U+0B6A", "U+0B6B", "U+0B6C", "U+0B6D", "U+0B6E", "U+0B6F",
            "௦", "௧", "௨", "௩", "௪", "௫", "௬", "௭", "௮", "௯",
            "U+0C66", "U+0C67", "U+0C68", "U+0C69", "U+0C6A", "U+0C6B", "U+0C6C", "U+0C6D", "U+0C6E", "U+0C6F",
            "೦", "೧", "೨", "೩", "೪", "೫", "೬", "೭", "೮", "೯",
            "U+0D66", "U+0D67", "U+0D68", "U+0D69", "U+0D6A", "U+0D6B", "U+0D6C", "U+0D6D", "U+0D6E", "U+0D6F",
            "෦", "෧", "෨", "෩", "෪", "෫", "෬", "෭", "෮", "෯",
            "U+0E50", "U+0E51", "U+0E52", "U+0E53", "U+0E54", "U+0E55", "U+0E56", "U+0E57", "U+0E58", "U+0E59",
            "໐", "໑", "໒", "໓", "໔", "໕", "໖", "໗", "໘", "໙",
            "U+0F20", "U+0F21", "U+0F22", "U+0F23", "U+0F24", "U+0F25", "U+0F26", "U+0F27", "U+0F28", "U+0F29",
            "U+1040", "U+1041", "U+1042", "U+1043", "U+1044", "U+1045", "U+1046", "U+1047", "U+1048", "U+1049",
            "႐", "႑", "႒", "႓", "႔", "႕", "႖", "႗", "႘", "႙",
            "០", "១", "២", "៣", "៤", "៥", "៦", "៧", "៨", "៩",
            "U+1810", "U+1811", "U+1812", "U+1813", "U+1814", "U+1815", "U+1816", "U+1817", "U+1818", "U+1819",
            "U+1946", "U+1947", "U+1948", "U+1949", "U+194A", "U+194B", "U+194C", "U+194D", "U+194E", "U+194F",
            "᧐", "᧑", "᧒", "᧓", "᧔", "᧕", "᧖", "᧗", "᧘", "᧙",
            "᪀", "᪁", "᪂", "᪃", "᪄", "᪅", "᪆", "᪇", "᪈", "᪉",
            "᪐", "᪑", "᪒", "᪓", "᪔", "᪕", "᪖", "᪗", "᪘", "᪙",
            "U+1B50", "U+1B51", "U+1B52", "U+1B53", "U+1B54", "U+1B55", "U+1B56", "U+1B57", "U+1B58", "U+1B59",
            "᮰", "᮱", "᮲", "᮳", "᮴", "᮵", "᮶", "᮷", "᮸", "᮹",
            "U+1C40", "U+1C41", "U+1C42", "U+1C43", "U+1C44", "U+1C45", "U+1C46", "U+1C47", "U+1C48", "U+1C49",
            "U+1C50", "U+1C51", "U+1C52", "U+1C53", "U+1C54", "U+1C55", "U+1C56", "U+1C57", "U+1C58", "U+1C59",
            "U+A620", "U+A621", "U+A622", "U+A623", "U+A624", "U+A625", "U+A626", "U+A627", "U+A628", "U+A629",
            "꣐", "꣑", "꣒", "꣓", "꣔", "꣕", "꣖", "꣗", "꣘", "꣙",
            "U+A900", "U+A901", "U+A902", "U+A903", "U+A904", "U+A905", "U+A906", "U+A907", "U+A908", "U+A909",
            "꧐", "꧑", "꧒", "꧓", "꧔", "꧕", "꧖", "꧗", "꧘", "꧙",
            "꧰", "꧱", "꧲", "꧳", "꧴", "꧵", "꧶", "꧷", "꧸", "꧹",
            "U+AA50", "U+AA51", "U+AA52", "U+AA53", "U+AA54", "U+AA55", "U+AA56", "U+AA57", "U+AA58", "U+AA59",
            "꯰", "꯱", "꯲", "꯳", "꯴", "꯵", "꯶", "꯷", "꯸", "꯹",
            "U+FF10", "U+FF11", "U+FF12", "U+FF13", "U+FF14", "U+FF15", "U+FF16", "U+FF17", "U+FF18", "U+FF19",
            "U+104A0", "U+104A1", "U+104A2", "U+104A3", "U+104A4", "U+104A5", "U+104A6", "U+104A7", "U+104A8", "U+104A9",
            "U+10D30", "U+10D31", "U+10D32", "U+10D33", "U+10D34", "U+10D35", "U+10D36", "U+10D37", "U+10D38", "U+10D39",
            "U+11066", "U+11067", "U+11068", "U+11069", "U+1106A", "U+1106B", "U+1106C", "U+1106D", "U+1106E", "U+1106F",
            "U+110F0", "U+110F1", "U+110F2", "U+110F3", "U+110F4", "U+110F5", "U+110F6", "U+110F7", "U+110F8", "U+110F9",
            "U+11136", "U+11137", "U+11138", "U+11139", "U+1113A", "U+1113B", "U+1113C", "U+1113D", "U+1113E", "U+1113F",
            "U+111D0", "U+111D1", "U+111D2", "U+111D3", "U+111D4", "U+111D5", "U+111D6", "U+111D7", "U+111D8", "U+111D9",
            "U+112F0", "U+112F1", "U+112F2", "U+112F3", "U+112F4", "U+112F5", "U+112F6", "U+112F7", "U+112F8", "U+112F9",
            "U+11450", "U+11451", "U+11452", "U+11453", "U+11454", "U+11455", "U+11456", "U+11457", "U+11458", "U+11459",
            "U+114D0", "U+114D1", "U+114D2", "U+114D3", "U+114D4", "U+114D5", "U+114D6", "U+114D7", "U+114D8", "U+114D9",
            "U+11650", "U+11651", "U+11652", "U+11653", "U+11654", "U+11655", "U+11656", "U+11657", "U+11658", "U+11659",
            "U+116C0", "U+116C1", "U+116C2", "U+116C3", "U+116C4", "U+116C5", "U+116C6", "U+116C7", "U+116C8", "U+116C9",
            "U+11730", "U+11731", "U+11732", "U+11733", "U+11734", "U+11735", "U+11736", "U+11737", "U+11738", "U+11739",
            "U+118E0", "U+118E1", "U+118E2", "U+118E3", "U+118E4", "U+118E5", "U+118E6", "U+118E7", "U+118E8", "U+118E9",
            "U+11950", "U+11951", "U+11952", "U+11953", "U+11954", "U+11955", "U+11956", "U+11957", "U+11958", "U+11959",
            "U+11C50", "U+11C51", "U+11C52", "U+11C53", "U+11C54", "U+11C55", "U+11C56", "U+11C57", "U+11C58", "U+11C59",
            "U+11D50", "U+11D51", "U+11D52", "U+11D53", "U+11D54", "U+11D55", "U+11D56", "U+11D57", "U+11D58", "U+11D59",
            "U+11DA0", "U+11DA1", "U+11DA2", "U+11DA3", "U+11DA4", "U+11DA5", "U+11DA6", "U+11DA7", "U+11DA8", "U+11DA9",
            "U+16A60", "U+16A61", "U+16A62", "U+16A63", "U+16A64", "U+16A65", "U+16A66", "U+16A67", "U+16A68", "U+16A69",
            "U+16AC0", "U+16AC1", "U+16AC2", "U+16AC3", "U+16AC4", "U+16AC5", "U+16AC6", "U+16AC7", "U+16AC8", "U+16AC9",
            "U+16B50", "U+16B51", "U+16B52", "U+16B53", "U+16B54", "U+16B55", "U+16B56", "U+16B57", "U+16B58", "U+16B59",
            "U+1D7CE", "U+1D7CF", "U+1D7D0", "U+1D7D1", "U+1D7D2", "U+1D7D3", "U+1D7D4", "U+1D7D5", "U+1D7D6", "U+1D7D7",
            "U+1D7D8", "U+1D7D9", "U+1D7DA", "U+1D7DB", "U+1D7DC", "U+1D7DD", "U+1D7DE", "U+1D7DF", "U+1D7E0", "U+1D7E1",
            "U+1D7E2", "U+1D7E3", "U+1D7E4", "U+1D7E5", "U+1D7E6", "U+1D7E7", "U+1D7E8", "U+1D7E9", "U+1D7EA", "U+1D7EB",
            "U+1D7EC", "U+1D7ED", "U+1D7EE", "U+1D7EF", "U+1D7F0", "U+1D7F1", "U+1D7F2", "U+1D7F3", "U+1D7F4", "U+1D7F5",
            "U+1D7F6", "U+1D7F7", "U+1D7F8", "U+1D7F9", "U+1D7FA", "U+1D7FB", "U+1D7FC", "U+1D7FD", "U+1D7FE", "U+1D7FF",
            "U+1E140", "U+1E141", "U+1E142", "U+1E143", "U+1E144", "U+1E145", "U+1E146", "U+1E147", "U+1E148", "U+1E149",
            "U+1E2F0", "U+1E2F1", "U+1E2F2", "U+1E2F3", "U+1E2F4", "U+1E2F5", "U+1E2F6", "U+1E2F7", "U+1E2F8", "U+1E2F9",
            "U+1E950", "U+1E951", "U+1E952", "U+1E953", "U+1E954", "U+1E955", "U+1E956", "U+1E957", "U+1E958", "U+1E959",
            "U+1FBF0", "U+1FBF1", "U+1FBF2", "U+1FBF3", "U+1FBF4", "U+1FBF5", "U+1FBF6", "U+1FBF7", "U+1FBF8", "U+1FBF9"
          >>
    IN  [all |-> {digits[i] : i \in 1..Len(digits)}, digits |-> digits]

\* str.lower() on one character: one character or, for U+0130, two
LowerChar(c) ==
    IF c = "U+0130" THEN <<"i", "U+0307">>
    ELSE IF c \in LowerLetters.changed
    THEN <<LowerLetters.to[CHOOSE i \in 1..Len(LowerLetters.from) : LowerLetters.from[i] = c]>>
    ELSE <<c>>

\* str.upper() on one character: one character or, for some, two or three; the
\* characters it changes, those it turns into three characters first, then
\* those it turns into two, then the others, with the first, second and third
\* character it makes of each
UpperChar(c) ==
    LET from ==
          <<
            "ΐ", "ΰ", "U+1F52", "U+1F54", "U+1F56", "ᾷ", "ῇ", "ῒ", "ΐ", "ῗ", "ῢ", "ΰ", "ῧ", "ῷ", "U+FB03", "U+FB04",
            "ß", "U+0149", "ǰ", "և", "ẖ", "ẗ", "ẘ", "ẙ", "ẚ", "U+1F50", "ᾀ", "ᾁ", "ᾂ", "ᾃ", "ᾄ", "ᾅ",
            "ᾆ", "ᾇ", "ᾈ", "ᾉ", "ᾊ", "ᾋ", "ᾌ", "ᾍ", "ᾎ", "ᾏ", "ᾐ", "ᾑ", "ᾒ", "ᾓ", "ᾔ", "ᾕ",
            "ᾖ", "ᾗ", "ᾘ", "ᾙ", "ᾚ", "ᾛ", "ᾜ", "ᾝ", "ᾞ", "ᾟ", "ᾠ", "ᾡ", "ᾢ", "ᾣ", "ᾤ", "ᾥ",
            "ᾦ", "ᾧ", "ᾨ", "ᾩ", "ᾪ", "ᾫ", "ᾬ", "ᾭ", "ᾮ", "ᾯ", "ᾲ", "ᾳ", "ᾴ", "ᾶ", "ᾼ", "ῂ",
            "ῃ", "ῄ", "ῆ", "ῌ", "ῖ", "ῤ", "ῦ", "ῲ", "ῳ", "ῴ", "ῶ", "ῼ", "U+FB00", "U+FB01", "U+FB02", "U+FB05",
            "U+FB06", "U+FB13", "U+FB14", "U+FB15", "U+FB16", "U+FB17", "a", "b", "c", "d", "e", "f", "g", "h", "i", "j",
            "k", "l", "m", "n", "o", "p", "q", "r", "s", "t", "u", "v", "w", "x", "y", "z",
            "µ", "à", "á", "â", "ã", "ä", "å", "æ", "ç", "è", "é", "ê", "ë", "ì", "í", "î",
            "ï", "ð", "ñ", "ò", "ó", "ô", "õ", "ö", "ø", "ù", "ú", "û", "ü", "ý", "þ", "ÿ",
            "U+0101", "U+0103", "U+0105", "U+0107", "U+0109", "U+010B", "U+010D", "U+010F", "U+0111", "U+0113", "U+0115", "U+0117", "U+0119", "U+011B", "U+011D", "U+011F",
            "U+0121", "U+0123", "U+0125", "U+0127", "U+0129", "U+012B", "U+012D", "U+012F", "U+0131", "U+0133", "U+0135", "U+0137", "U+013A", "U+013C", "U+013E", "U+0140",
            "U+0142", "U+0144", "U+0146", "U+0148", "U+014B", "U+014D", "U+014F", "U+0151", "U+0153", "U+0155", "U+0157", "U+0159", "U+015B", "U+015D", "U+015F", "U+0161",
            "U+0163", "U+0165", "U+0167", "U+0169", "U+016B", "U+016D", "U+016F", "U+0171", "U+0173", "U+0175", "U+0177", "U+017A", "U+017C", "U+017E", "U+017F", "ƀ",
            "ƃ", "ƅ", "ƈ", "ƌ", "ƒ", "ƕ", "ƙ", "ƚ", "ƞ", "ơ", "ƣ", "ƥ", "ƨ", "ƭ", "ư", "ƴ",
            "ƶ", "ƹ", "ƽ", "ƿ", "ǅ", "ǆ", "ǈ", "ǉ", "ǋ", "ǌ", "ǎ", "ǐ", "ǒ", "ǔ", "ǖ", "ǘ",
            "ǚ", "ǜ", "ǝ", "ǟ", "ǡ", "ǣ", "ǥ", "ǧ", "ǩ", "ǫ", "ǭ", "ǯ", "ǲ", "ǳ", "ǵ", "ǹ",
            "ǻ", "ǽ", "ǿ", "U+0201", "U+0203", "U+0205", "U+0207", "U+0209", "U+020B", "U+020D", "U+020F", "U+0211", "U+0213", "U+0215", "U+0217", "U+0219",
            "U+021B", "U+021D", "U+021F", "U+0223", "U+0225", "U+0227", "U+0229", "U+022B", "U+022D", "U+022F", "U+0231", "U+0233", "U+023C", "U+023F", "U+0240", "U+0242",
            "U+0247", "U+0249", "U+024B", "U+024D", "U+024F", "U+0250", "U+0251", "U+0252", "U+0253", "U+0254", "U+0256", "U+0257", "U+0259", "U+025B", "U+025C", "U+0260",
            "U+0261", "U+0263", "U+0265", "U+0266", "U+0268", "U+0269", "U+026A", "U+026B", "U+026C", "U+026F", "U+0271", "U+0272", "U+0275", "U+027D", "ʀ", "ʂ",
            "ʃ", "ʇ", "ʈ", "ʉ", "ʊ", "ʋ", "ʌ", "ʒ", "ʝ", "ʞ", "U+0345", "U+0371", "U+0373", "U+0377", "U+037B", "U+037C",
            "U+037D", "ά", "έ", "ή", "ί", "α", "β", "γ", "δ", "ε", "ζ", "η", "θ", "ι", "κ", "λ",
            "μ", "ν", "ξ", "ο", "π", "ρ", "ς", "σ", "τ", "υ", "φ", "χ", "ψ", "ω", "ϊ", "ϋ",
            "ό", "ύ", "ώ", "ϐ", "ϑ", "ϕ", "ϖ", "ϗ", "ϙ", "ϛ", "ϝ", "ϟ", "ϡ", "ϣ", "ϥ", "ϧ",
            "ϩ", "ϫ", "ϭ", "ϯ", "ϰ", "ϱ", "ϲ", "ϳ", "ϵ", "ϸ", "ϻ", "U+0430", "U+0431", "U+0432", "U+0433", "U+0434",
            "U+0435", "U+0436", "U+0437", "U+0438", "U+0439", "U+043A", "U+043B", "U+043C", "U+043D", "U+043E", "U+043F", "U+0440", "U+0441", "U+0442", "U+0443", "U+0444",
            "U+0445", "U+0446", "U+0447", "U+0448", "U+0449", "U+044A", "U+044B", "U+044C", "U+044D", "U+044E", "U+044F", "U+0450", "U+0451", "U+0452", "U+0453", "U+0454",
            "U+0455", "U+0456", "U+0457", "U+0458", "U+0459", "U+045A", "U+045B", "U+045C", "U+045D", "U+045E", "U+045F", "U+0461", "U+0463", "U+0465", "U+0467", "U+0469",
            "U+046B", "U+046D", "U+046F", "U+0471", "U+0473", "U+0475", "U+0477", "U+0479", "U+047B", "U+047D", "U+047F", "ҁ", "ҋ", "ҍ", "ҏ", "ґ",
            "ғ", "ҕ", "җ", "ҙ", "қ", "ҝ", "ҟ", "ҡ", "ң", "ҥ", "ҧ", "ҩ", "ҫ", "ҭ", "ү", "ұ",
            "ҳ", "ҵ", "ҷ", "ҹ", "һ", "ҽ", "ҿ", "ӂ", "ӄ", "ӆ", "ӈ", "ӊ", "ӌ", "ӎ", "ӏ", "ӑ",
            "ӓ", "ӕ", "ӗ", "ә", "ӛ", "ӝ", "ӟ", "ӡ", "ӣ", "ӥ", "ӧ", "ө", "ӫ", "ӭ", "ӯ", "ӱ",
            "ӳ", "ӵ", "ӷ", "ӹ", "ӻ", "ӽ", "ӿ", "U+0501", "U+0503", "U+0505", "U+0507", "U+0509", "U+050B", "U+050D", "U+050F", "U+0511",
            "U+0513", "U+0515", "U+0517", "U+0519", "U+051B", "U+051D", "U+051F", "U+0521", "U+0523", "U+0525", "U+0527", "U+0529", "U+052B", "U+052D", "U+052F", "U+0561",
            "U+0562", "U+0563", "U+0564", "U+0565", "U+0566", "U+0567", "U+0568", "U+0569", "U+056A", "U+056B", "U+056C", "U+056D", "U+056E", "U+056F", "U+0570", "U+0571",
            "U+0572", "U+0573", "U+0574", "U+0575", "U+0576", "U+0577", "U+0578", "U+0579", "U+057A", "U+057B", "U+057C", "U+057D", "U+057E", "U+057F", "ր", "ց",
            "ւ", "փ", "ք", "օ", "ֆ", "ა", "ბ", "გ", "დ", "ე", "ვ", "ზ", "თ", "ი", "კ", "ლ",
            "მ", "ნ", "ო", "პ", "ჟ", "რ", "ს", "ტ", "უ", "ფ", "ქ", "ღ", "ყ", "შ", "ჩ", "ც",
            "ძ", "წ", "ჭ", "ხ", "ჯ", "ჰ", "ჱ", "ჲ", "ჳ", "ჴ", "ჵ", "ჶ", "ჷ", "ჸ", "ჹ", "ჺ",
            "ჽ", "ჾ", "ჿ", "ᏸ", "ᏹ", "ᏺ", "ᏻ", "ᏼ", "ᏽ", "ᲀ", "ᲁ", "ᲂ", "ᲃ", "ᲄ", "ᲅ", "ᲆ",
            "ᲇ", "ᲈ", "U+1D79", "U+1D7D", "ᶎ", "U+1E01", "U+1E03", "U+1E05", "U+1E07", "U+1E09", "U+1E0B", "U+1E0D", "U+1E0F", "U+1E11", "U+1E13", "U+1E15",
            "U+1E17", "U+1E19", "U+1E1B", "U+1E1D", "U+1E1F", "U+1E21", "U+1E23", "U+1E25", "U+1E27", "U+1E29", "U+1E2B", "U+1E2D", "U+1E2F", "U+1E31", "U+1E33", "U+1E35",
            "U+1E37", "U+1E39", "U+1E3B", "U+1E3D", "U+1E3F", "U+1E41", "U+1E43", "U+1E45", "U+1E47", "U+1E49", "U+1E4B", "U+1E4D", "U+1E4F", "U+1E51", "U+1E53", "U+1E55",
            "U+1E57", "U+1E59", "U+1E5B", "U+1E5D", "U+1E5F", "U+1E61", "U+1E63", "U+1E65", "U+1E67", "U+1E69", "U+1E6B", "U+1E6D", "U+1E6F", "U+1E71", "U+1E73", "U+1E75",
            "U+1E77", "U+1E79", "U+1E7B", "U+1E7D", "U+1E7F", "ẁ", "ẃ", "ẅ", "ẇ", "ẉ", "ẋ", "ẍ", "ẏ", "ẑ", "ẓ", "ẕ",
            "ẛ", "ạ", "ả", "ấ", "ầ", "ẩ", "ẫ", "ậ", "ắ", "ằ", "ẳ", "ẵ", "ặ", "ẹ", "ẻ", "ẽ",
            "ế", "ề", "ể", "ễ", "ệ", "ỉ", "ị", "ọ", "ỏ", "ố", "ồ", "ổ", "ỗ", "ộ", "ớ", "ờ",
            "ở", "ỡ", "ợ", "ụ", "ủ", "ứ", "ừ", "ử", "ữ", "ự", "ỳ", "ỵ", "ỷ", "ỹ", "ỻ", "ỽ",
            "ỿ", "U+1F00", "U+1F01", "U+1F02", "U+1F03", "U+1F04", "U+1F05", "U+1F06", "U+1F07", "U+1F10", "U+1F11", "U+1F12", "U+1F13", "U+1F14", "U+1F15", "U+1F20",
            "U+1F21", "U+1F22", "U+1F23", "U+1F24", "U+1F25", "U+1F26", "U+1F27", "U+1F30", "U+1F31", "U+1F32", "U+1F33", "U+1F34", "U+1F35", "U+1F36", "U+1F37", "U+1F40",
            "U+1F41", "U+1F42", "U+1F43", "U+1F44", "U+1F45", "U+1F51", "U+1F53", "U+1F55", "U+1F57", "U+1F60", "U+1F61", "U+1F62", "U+1F63", "U+1F64", "U+1F65", "U+1F66",
            "U+1F67", "U+1F70", "U+1F71", "U+1F72", "U+1F73", "U+1F74", "U+1F75", "U+1F76", "U+1F77", "U+1F78", "U+1F79", "U+1F7A", "U+1F7B", "U+1F7C", "U+1F7D", "ᾰ",
            "ᾱ", "ι", "ῐ", "ῑ", "ῠ", "ῡ", "ῥ", "U+214E", "U+2170", "U+2171", "U+2172", "U+2173", "U+2174", "U+2175", "U+2176", "U+2177",
            "U+2178", "U+2179", "U+217A", "U+217B", "U+217C", "U+217D", "U+217E", "U+217F", "ↄ", "ⓐ", "ⓑ", "ⓒ", "ⓓ", "ⓔ", "ⓕ", "ⓖ",
            "ⓗ", "ⓘ", "ⓙ", "ⓚ", "ⓛ", "ⓜ", "ⓝ", "ⓞ", "ⓟ", "ⓠ", "ⓡ", "ⓢ", "ⓣ", "ⓤ", "ⓥ", "ⓦ",
            "ⓧ", "ⓨ", "ⓩ", "U+2C30", "U+2C31", "U+2C32", "U+2C33", "U+2C34", "U+2C35", "U+2C36", "U+2C37", "U+2C38", "U+2C39", "U+2C3A", "U+2C3B", "U+2C3C",
            "U+2C3D", "U+2C3E", "U+2C3F", "U+2C40", "U+2C41", "U+2C42", "U+2C43", "U+2C44", "U+2C45", "U+2C46", "U+2C47", "U+2C48", "U+2C49", "U+2C4A", "U+2C4B", "U+2C4C",
            "U+2C4D", "U+2C4E", "U+2C4F", "U+2C50", "U+2C51", "U+2C52", "U+2C53", "U+2C54", "U+2C55", "U+2C56", "U+2C57", "U+2C58", "U+2C59", "U+2C5A", "U+2C5B", "U+2C5C",
            "U+2C5D", "U+2C5E", "U+2C5F", "U+2C61", "U+2C65", "U+2C66", "U+2C68", "U+2C6A", "U+2C6C", "U+2C73", "U+2C76", "ⲁ", "ⲃ", "ⲅ", "ⲇ", "ⲉ",
            "ⲋ", "ⲍ", "ⲏ", "ⲑ", "ⲓ", "ⲕ", "ⲗ", "ⲙ", "ⲛ", "ⲝ", "ⲟ", "ⲡ", "ⲣ", "ⲥ", "ⲧ", "ⲩ",
            "ⲫ", "ⲭ", "ⲯ", "ⲱ", "ⲳ", "ⲵ", "ⲷ", "ⲹ", "ⲻ", "ⲽ", "ⲿ", "ⳁ", "ⳃ", "ⳅ", "ⳇ", "ⳉ",
            "ⳋ", "ⳍ", "ⳏ", "ⳑ", "ⳓ", "ⳕ", "ⳗ", "ⳙ", "ⳛ", "ⳝ", "ⳟ", "ⳡ", "ⳣ", "ⳬ", "ⳮ", "ⳳ",
            "U+2D00", "U+2D01", "U+2D02", "U+2D03", "U+2D04", "U+2D05", "U+2D06", "U+2D07", "U+2D08", "U+2D09", "U+2D0A", "U+2D0B", "U+2D0C", "U+2D0D", "U+2D0E", "U+2D0F",
            "U+2D10", "U+2D11", "U+2D12", "U+2D13", "U+2D14", "U+2D15", "U+2D16", "U+2D17", "U+2D18", "U+2D19", "U+2D1A", "U+2D1B", "U+2D1C", "U+2D1D", "U+2D1E", "U+2D1F",
            "U+2D20", "U+2D21", "U+2D22", "U+2D23", "U+2D24", "U+2D25", "U+2D27", "U+2D2D", "U+A641", "U+A643", "U+A645", "U+A647", "U+A649", "U+A64B", "U+A64D", "U+A64F",
            "U+A651", "U+A653", "U+A655", "U+A657", "U+A659", "U+A65B", "U+A65D", "U+A65F", "U+A661", "U+A663", "U+A665", "U+A667", "U+A669", "U+A66B", "U+A66D", "ꚁ",
            "ꚃ", "ꚅ", "ꚇ", "ꚉ", "ꚋ", "ꚍ", "ꚏ", "ꚑ", "ꚓ", "ꚕ", "ꚗ", "ꚙ", "ꚛ", "U+A723", "U+A725", "U+A727",
            "U+A729", "U+A72B", "U+A72D", "U+A72F", "U+A733", "U+A735", "U+A737", "U+A739", "U+A73B", "U+A73D", "U+A73F", "U+A741", "U+A743", "U+A745", "U+A747", "U+A749",
            "U+A74B", "U+A74D", "U+A74F", "U+A751", "U+A753", "U+A755", "U+A757", "U+A759", "U+A75B", "U+A75D", "U+A75F", "U+A761", "U+A763", "U+A765", "U+A767", "U+A769",
            "U+A76B", "U+A76D", "U+A76F", "U+A77A", "U+A77C", "U+A77F", "ꞁ", "ꞃ", "ꞅ", "ꞇ", "ꞌ", "ꞑ", "ꞓ", "ꞔ", "ꞗ", "ꞙ",
            "ꞛ", "ꞝ", "ꞟ", "ꞡ", "ꞣ", "ꞥ", "ꞧ", "ꞩ", "ꞵ", "ꞷ", "ꞹ", "ꞻ", "ꞽ", "ꞿ", "ꟁ", "ꟃ",
            "ꟈ", "ꟊ", "ꟑ", "ꟗ", "ꟙ", "ꟶ", "U+AB53", "U+AB70", "U+AB71", "U+AB72", "U+AB73", "U+AB74", "U+AB75", "U+AB76", "U+AB77", "U+AB78",
            "U+AB79", "U+AB7A", "U+AB7B", "U+AB7C", "U+AB7D", "U+AB7E", "U+AB7F", "ꮀ", "ꮁ", "ꮂ", "ꮃ", "ꮄ", "ꮅ", "ꮆ", "ꮇ", "ꮈ",
            "ꮉ", "ꮊ", "ꮋ", "ꮌ", "ꮍ", "ꮎ", "ꮏ", "ꮐ", "ꮑ", "ꮒ", "ꮓ", "ꮔ", "ꮕ", "ꮖ", "ꮗ", "ꮘ",
            "ꮙ", "ꮚ", "ꮛ", "ꮜ", "ꮝ", "ꮞ", "ꮟ", "ꮠ", "ꮡ", "ꮢ", "ꮣ", "ꮤ", "ꮥ", "ꮦ", "ꮧ", "ꮨ",
            "ꮩ", "ꮪ", "ꮫ", "ꮬ", "ꮭ", "ꮮ", "ꮯ", "ꮰ", "ꮱ", "ꮲ", "ꮳ", "ꮴ", "ꮵ", "ꮶ", "ꮷ", "ꮸ",
            "ꮹ", "ꮺ", "ꮻ", "ꮼ", "ꮽ", "ꮾ", "ꮿ", "U+FF41", "U+FF42", "U+FF43", "U+FF44", "U+FF45", "U+FF46", "U+FF47", "U+FF48", "U+FF49",
            "U+FF4A", "U+FF4B", "U+FF4C", "U+FF4D", "U+FF4E", "U+FF4F", "U+FF50", "U+FF51", "U+FF52", "U+FF53", "U+FF54", "U+FF55", "U+FF56", "U+FF57", "U+FF58", "U+FF59",
            "U+FF5A", "U+10428", "U+10429", "U+1042A", "U+1042B", "U+1042C", "U+1042D", "U+1042E", "U+1042F", "U+10430", "U+10431", "U+10432", "U+10433", "U+10434", "U+10435", "U+10436",
            "U+10437", "U+10438", "U+10439", "U+1043A", "U+1043B", "U+1043C", "U+1043D", "U+1043E", "U+1043F", "U+10440", "U+10441", "U+10442", "U+10443", "U+10444", "U+10445", "U+10446",
            "U+10447", "U+10448", "U+10449", "U+1044A", "U+1044B", "U+1044C", "U+1044D", "U+1044E", "U+1044F", "U+104D8", "U+104D9", "U+104DA", "U+104DB", "U+104DC", "U+104DD", "U+104DE",
            "U+104DF", "U+104E0", "U+104E1", "U+104E2", "U+104E3", "U+104E4", "U+104E5", "U+104E6", "U+104E7", "U+104E8", "U+104E9", "U+104EA", "U+104EB", "U+104EC", "U+104ED", "U+104EE",
            "U+104EF", "U+104F0", "U+104F1", "U+104F2", "U+104F3", "U+104F4", "U+104F5", "U+104F6", "U+104F7", "U+104F8", "U+104F9", "U+104FA", "U+104FB", "U+10597", "U+10598", "U+10599",
            "U+1059A", "U+1059B", "U+1059C", "U+1059D", "U+1059E", "U+1059F", "U+105A0", "U+105A1", "U+105A3", "U+105A4", "U+105A5", "U+105A6", "U+105A7", "U+105A8", "U+105A9", "U+105AA",
            "U+105AB", "U+105AC", "U+105AD", "U+105AE", "U+105AF", "U+105B0", "U+105B1", "U+105B3", "U+105B4", "U+105B5", "U+105B6", "U+105B7", "U+105B8", "U+105B9", "U+105BB", "U+105BC",
            "U+10CC0", "U+10CC1", "U+10CC2", "U+10CC3", "U+10CC4", "U+10CC5", "U+10CC6", "U+10CC7", "U+10CC8", "U+10CC9", "U+10CCA", "U+10CCB", "U+10CCC", "U+10CCD", "U+10CCE", "U+10CCF",
            "U+10CD0", "U+10CD1", "U+10CD2", "U+10CD3", "U+10CD4", "U+10CD5", "U+10CD6", "U+10CD7", "U+10CD8", "U+10CD9", "U+10CDA", "U+10CDB", "U+10CDC", "U+10CDD", "U+10CDE", "U+10CDF",
            "U+10CE0", "U+10CE1", "U+10CE2", "U+10CE3", "U+10CE4", "U+10CE5", "U+10CE6", "U+10CE7", "U+10CE8", "U+10CE9", "U+10CEA", "U+10CEB", "U+10CEC", "U+10CED", "U+10CEE", "U+10CEF",
            "U+10CF0", "U+10CF1", "U+10CF2", "U+118C0", "U+118C1", "U+118C2", "U+118C3", "U+118C4", "U+118C5", "U+118C6", "U+118C7", "U+118C8", "U+118C9", "U+118CA", "U+118CB", "U+118CC",
            "U+118CD", "U+118CE", "U+118CF", "U+118D0", "U+118D1", "U+118D2", "U+118D3", "U+118D4", "U+118D5", "U+118D6", "U+118D7", "U+118D8", "U+118D9", "U+118DA", "U+118DB", "U+118DC",
            "U+118DD", "U+118DE", "U+118DF", "U+16E60", "U+16E61", "U+16E62", "U+16E63", "U+16E64", "U+16E65", "U+16E66", "U+16E67", "U+16E68", "U+16E69", "U+16E6A", "U+16E6B", "U+16E6C",
            "U+16E6D", "U+16E6E", "U+16E6F", "U+16E70", "U+16E71", "U+16E72", "U+16E73", "U+16E74", "U+16E75", "U+16E76", "U+16E77", "U+16E78", "U+16E79", "U+16E7A", "U+16E7B", "U+16E7C",
            "U+16E7D", "U+16E7E", "U+16E7F", "U+1E922", "U+1E923", "U+1E924", "U+1E925", "U+1E926", "U+1E927", "U+1E928", "U+1E929", "U+1E92A", "U+1E92B", "U+1E92C", "U+1E92D", "U+1E92E",
            "U+1E92F", "U+1E930", "U+1E931", "U+1E932", "U+1E933", "U+1E934", "U+1E935", "U+1E936", "U+1E937", "U+1E938", "U+1E939", "U+1E93A", "U+1E93B", "U+1E93C", "U+1E93D", "U+1E93E",
            "U+1E93F", "U+1E940", "U+1E941", "U+1E942", "U+1E943"
          >>
        first ==
          <<
            "Ι", "Υ", "Υ", "Υ", "Υ", "Α", "Η", "Ι", "Ι", "Ι", "Υ", "Υ", "Υ", "Ω", "F", "F",
            "S", "ʼ", "J", "U+0535", "H", "T", "W", "Y", "A", "Υ", "U+1F08", "U+1F09", "U+1F0A", "U+1F0B", "U+1F0C", "U+1F0D",
            "U+1F0E", "U+1F0F", "U+1F08", "U+1F09", "U+1F0A", "U+1F0B", "U+1F0C", "U+1F0D", "U+1F0E", "U+1F0F", "U+1F28", "U+1F29", "U+1F2A", "U+1F2B", "U+1F2C", "U+1F2D",
            "U+1F2E", "U+1F2F", "U+1F28", "U+1F29", "U+1F2A", "U+1F2B", "U+1F2C", "U+1F2D", "U+1F2E", "U+1F2F", "U+1F68", "U+1F69", "U+1F6A", "U+1F6B", "U+1F6C", "U+1F6D",
            "U+1F6E", "U+1F6F", "U+1F68", "U+1F69", "U+1F6A", "U+1F6B", "U+1F6C", "U+1F6D", "U+1F6E", "U+1F6F", "Ὰ", "Α", "Ά", "Α", "Α", "Ὴ",
            "Η", "Ή", "Η", "Η", "Ι", "Ρ", "Υ", "Ὼ", "Ω", "Ώ", "Ω", "Ω", "F", "F", "F", "S",
            "S", "U+0544", "U+0544", "U+0544", "U+054E", "U+0544", "A", "B", "C", "D", "E", "F", "G", "H", "I", "J",
            "K", "L", "M", "N", "O", "P", "Q", "R", "S", "T", "U", "V", "W", "X", "Y", "Z",
            "Μ", "À", "Á", "Â", "Ã", "Ä", "Å", "Æ", "Ç", "È", "É", "Ê", "Ë", "Ì", "Í", "Î",
            "Ï", "Ð", "Ñ", "Ò", "Ó", "Ô", "Õ", "Ö", "Ø", "Ù", "Ú", "Û", "Ü", "Ý", "Þ", "U+0178",
            "U+0100", "U+0102", "U+0104", "U+0106", "U+0108", "U+010A", "U+010C", "U+010E", "U+0110", "U+0112", "U+0114", "U+0116", "U+0118", "U+011A", "U+011C", "U+011E",
            "U+0120", "U+0122", "U+0124", "U+0126", "U+0128", "U+012A", "U+012C", "U+012E", "I", "U+0132", "U+0134", "U+0136", "U+0139", "U+013B", "U+013D", "U+013F",
            "U+0141", "U+0143", "U+0145", "U+0147", "U+014A", "U+014C", "U+014E", "U+0150", "U+0152", "U+0154", "U+0156", "U+0158", "U+015A", "U+015C", "U+015E", "U+0160",
            "U+0162", "U+0164", "U+0166", "U+0168", "U+016A", "U+016C", "U+016E", "U+0170", "U+0172", "U+0174", "U+0176", "U+0179", "U+017B", "U+017D", "S", "U+0243",
            "Ƃ", "Ƅ", "Ƈ", "Ƌ", "Ƒ", "Ƕ", "Ƙ", "U+023D", "U+0220", "Ơ", "Ƣ", "Ƥ", "Ƨ", "Ƭ", "Ư", "Ƴ",
            "Ƶ", "Ƹ", "Ƽ", "Ƿ", "Ǆ", "Ǆ", "Ǉ", "Ǉ", "Ǌ", "Ǌ", "Ǎ", "Ǐ", "Ǒ", "Ǔ", "Ǖ", "Ǘ",
            "Ǚ", "Ǜ", "Ǝ", "Ǟ", "Ǡ", "Ǣ", "Ǥ", "Ǧ", "Ǩ", "Ǫ", "Ǭ", "Ǯ", "Ǳ", "Ǳ", "Ǵ", "Ǹ",
            "Ǻ", "Ǽ", "Ǿ", "U+0200", "U+0202", "U+0204", "U+0206", "U+0208", "U+020A", "U+020C", "U+020E", "U+0210", "U+0212", "U+0214", "U+0216", "U+0218",
            "U+021A", "U+021C", "U+021E", "U+0222", "U+0224", "U+0226", "U+0228", "U+022A", "U+022C", "U+022E", "U+0230", "U+0232", "U+023B", "U+2C7E", "U+2C7F", "U+0241",
            "U+0246", "U+0248", "U+024A", "U+024C", "U+024E", "U+2C6F", "U+2C6D", "U+2C70", "Ɓ", "Ɔ", "Ɖ", "Ɗ", "Ə", "Ɛ", "Ɜ", "Ɠ",
            "Ɡ", "Ɣ", "Ɥ", "Ɦ", "Ɨ", "Ɩ", "Ɪ", "U+2C62", "Ɬ", "Ɯ", "U+2C6E", "Ɲ", "Ɵ", "U+2C64", "Ʀ", "Ʂ",
            "Ʃ", "Ʇ", "Ʈ", "U+0244", "Ʊ", "Ʋ", "U+0245", "Ʒ", "Ʝ", "Ʞ", "Ι", "U+0370", "U+0372", "U+0376", "Ͻ", "Ͼ",
            "Ͽ", "Ά", "Έ", "Ή", "Ί", "Α", "Β", "Γ", "Δ", "Ε", "Ζ", "Η", "Θ", "Ι", "Κ", "Λ",
            "Μ", "Ν", "Ξ", "Ο", "Π", "Ρ", "Σ", "Σ", "Τ", "Υ", "Φ", "Χ", "Ψ", "Ω", "Ϊ", "Ϋ",
            "Ό", "Ύ", "Ώ", "Β", "Θ", "Φ", "Π", "Ϗ", "Ϙ", "Ϛ", "Ϝ", "Ϟ", "Ϡ", "Ϣ", "Ϥ", "Ϧ",
            "Ϩ", "Ϫ", "Ϭ", "Ϯ", "Κ", "Ρ", "Ϲ", "U+037F", "Ε", "Ϸ", "Ϻ", "U+0410", "U+0411", "U+0412", "U+0413", "U+0414",
            "U+0415", "U+0416", "U+0417", "U+0418", "U+0419", "U+041A", "U+041B", "U+041C", "U+041D", "U+041E", "U+041F", "U+0420", "U+0421", "U+0422", "U+0423", "U+0424",
            "U+0425", "U+0426", "U+0427", "U+0428", "U+0429", "U+042A", "U+042B", "U+042C", "U+042D", "U+042E", "U+042F", "U+0400", "U+0401", "U+0402", "U+0403", "U+0404",
            "U+0405", "U+0406", "U+0407", "U+0408", "U+0409", "U+040A", "U+040B", "U+040C", "U+040D", "U+040E", "U+040F", "U+0460", "U+0462", "U+0464", "U+0466", "U+0468",
            "U+046A", "U+046C", "U+046E", "U+0470", "U+0472", "U+0474", "U+0476", "U+0478", "U+047A", "U+047C", "U+047E", "Ҁ", "Ҋ", "Ҍ", "Ҏ", "Ґ",
            "Ғ", "Ҕ", "Җ", "Ҙ", "Қ", "Ҝ", "Ҟ", "Ҡ", "Ң", "Ҥ", "Ҧ", "Ҩ", "Ҫ", "Ҭ", "Ү", "Ұ",
            "Ҳ", "Ҵ", "Ҷ", "Ҹ", "Һ", "Ҽ", "Ҿ", "Ӂ", "Ӄ", "Ӆ", "Ӈ", "Ӊ", "Ӌ", "Ӎ", "Ӏ", "Ӑ",
            "Ӓ", "Ӕ", "Ӗ", "Ә", "Ӛ", "Ӝ", "Ӟ", "Ӡ", "Ӣ", "Ӥ", "Ӧ", "Ө", "Ӫ", "Ӭ", "Ӯ", "Ӱ",
            "Ӳ", "Ӵ", "Ӷ", "Ӹ", "Ӻ", "Ӽ", "Ӿ", "U+0500", "U+0502", "U+0504", "U+0506", "U+0508", "U+050A", "U+050C", "U+050E", "U+0510",
            "U+0512", "U+0514", "U+0516", "U+0518", "U+051A", "U+051C", "U+051E", "U+0520", "U+0522", "U+0524", "U+0526", "U+0528", "U+052A", "U+052C", "U+052E", "U+0531",
            "U+0532", "U+0533", "U+0534", "U+0535", "U+0536", "U+0537", "U+0538", "U+0539", "U+053A", "U+053B", "U+053C", "U+053D", "U+053E", "U+053F", "U+0540", "U+0541",
            "U+0542", "U+0543", "U+0544", "U+0545", "U+0546", "U+0547", "U+0548", "U+0549", "U+054A", "U+054B", "U+054C", "U+054D", "U+054E", "U+054F", "U+0550", "U+0551",
            "U+0552", "U+0553", "U+0554", "U+0555", "U+0556", "Ა", "Ბ", "Გ", "Დ", "Ე", "Ვ", "Ზ", "Თ", "Ი", "Კ", "Ლ",
            "Მ", "Ნ", "Ო", "Პ", "Ჟ", "Რ", "Ს", "Ტ", "Უ", "Ფ", "Ქ", "Ღ", "Ყ", "Შ", "Ჩ", "Ც",
            "Ძ", "Წ", "Ჭ", "Ხ", "Ჯ", "Ჰ", "Ჱ", "Ჲ", "Ჳ", "Ჴ", "Ჵ", "Ჶ", "Ჷ", "Ჸ", "Ჹ", "Ჺ",
            "Ჽ", "Ჾ", "Ჿ", "Ᏸ", "Ᏹ", "Ᏺ", "Ᏻ", "Ᏼ", "Ᏽ", "U+0412", "U+0414", "U+041E", "U+0421", "U+0422", "U+0422", "U+042A",
            "U+0462", "U+A64A", "U+A77D", "U+2C63", "Ᶎ", "U+1E00", "U+1E02", "U+1E04", "U+1E06", "U+1E08", "U+1E0A", "U+1E0C", "U+1E0E", "U+1E10", "U+1E12", "U+1E14",
            "U+1E16", "U+1E18", "U+1E1A", "U+1E1C", "U+1E1E", "U+1E20", "U+1E22", "U+1E24", "U+1E26", "U+1E28", "U+1E2A", "U+1E2C", "U+1E2E", "U+1E30", "U+1E32", "U+1E34",
            "U+1E36", "U+1E38", "U+1E3A", "U+1E3C", "U+1E3E", "U+1E40", "U+1E42", "U+1E44", "U+1E46", "U+1E48", "U+1E4A", "U+1E4C", "U+1E4E", "U+1E50", "U+1E52", "U+1E54",
            "U+1E56", "U+1E58", "U+1E5A", "U+1E5C", "U+1E5E", "U+1E60", "U+1E62", "U+1E64", "U+1E66", "U+1E68", "U+1E6A", "U+1E6C", "U+1E6E", "U+1E70", "U+1E72", "U+1E74",
            "U+1E76", "U+1E78", "U+1E7A", "U+1E7C", "U+1E7E", "Ẁ", "Ẃ", "Ẅ", "Ẇ", "Ẉ", "Ẋ", "Ẍ", "Ẏ", "Ẑ", "Ẓ", "Ẕ",
            "U+1E60", "Ạ", "Ả", "Ấ", "Ầ", "Ẩ", "Ẫ", "Ậ", "Ắ", "Ằ", "Ẳ", "Ẵ", "Ặ", "Ẹ", "Ẻ", "Ẽ",
            "Ế", "Ề", "Ể", "Ễ", "Ệ", "Ỉ", "Ị", "Ọ", "Ỏ", "Ố", "Ồ", "Ổ", "Ỗ", "Ộ", "Ớ", "Ờ",
            "Ở", "Ỡ", "Ợ", "Ụ", "Ủ", "Ứ", "Ừ", "Ử", "Ữ", "Ự", "Ỳ", "Ỵ", "Ỷ", "Ỹ", "Ỻ", "Ỽ",
            "Ỿ", "U+1F08", "U+1F09", "U+1F0A", "U+1F0B", "U+1F0C", "U+1F0D", "U+1F0E", "U+1F0F", "U+1F18", "U+1F19", "U+1F1A", "U+1F1B", "U+1F1C", "U+1F1D", "U+1F28",
            "U+1F29", "U+1F2A", "U+1F2B", "U+1F2C", "U+1F2D", "U+1F2E", "U+1F2F", "U+1F38", "U+1F39", "U+1F3A", "U+1F3B", "U+1F3C", "U+1F3D", "U+1F3E", "U+1F3F", "U+1F48",
            "U+1F49", "U+1F4A", "U+1F4B", "U+1F4C", "U+1F4D", "U+1F59", "U+1F5B", "U+1F5D", "U+1F5F", "U+1F68", "U+1F69", "U+1F6A", "U+1F6B", "U+1F6C", "U+1F6D", "U+1F6E",
            "U+1F6F", "Ὰ", "Ά", "Ὲ", "Έ", "Ὴ", "Ή", "Ὶ", "Ί", "Ὸ", "Ό", "Ὺ", "Ύ", "Ὼ", "Ώ", "Ᾰ",
            "Ᾱ", "Ι", "Ῐ", "Ῑ", "Ῠ", "Ῡ", "Ῥ", "U+2132", "U+2160", "U+2161", "U+2162", "U+2163", "U+2164", "U+2165", "U+2166", "U+2167",
            "U+2168", "U+2169", "U+216A", "U+216B", "U+216C", "U+216D", "U+216E", "U+216F", "Ↄ", "Ⓐ", "Ⓑ", "Ⓒ", "Ⓓ", "Ⓔ", "Ⓕ", "Ⓖ",
            "Ⓗ", "Ⓘ", "Ⓙ", "Ⓚ", "Ⓛ", "Ⓜ", "Ⓝ", "Ⓞ", "Ⓟ", "Ⓠ", "Ⓡ", "Ⓢ", "Ⓣ", "Ⓤ", "Ⓥ", "Ⓦ",
            "Ⓧ", "Ⓨ", "Ⓩ", "U+2C00", "U+2C01", "U+2C02", "U+2C03", "U+2C04", "U+2C05", "U+2C06", "U+2C07", "U+2C08", "U+2C09", "U+2C0A", "U+2C0B", "U+2C0C",
            "U+2C0D", "U+2C0E", "U+2C0F", "U+2C10", "U+2C11", "U+2C12", "U+2C13", "U+2C14", "U+2C15", "U+2C16", "U+2C17", "U+2C18", "U+2C19", "U+2C1A", "U+2C1B", "U+2C1C",
            "U+2C1D", "U+2C1E", "U+2C1F", "U+2C20", "U+2C21", "U+2C22", "U+2C23", "U+2C24", "U+2C25", "U+2C26", "U+2C27", "U+2C28", "U+2C29", "U+2C2A", "U+2C2B", "U+2C2C",
            "U+2C2D", "U+2C2E", "U+2C2F", "U+2C60", "U+023A", "U+023E", "U+2C67", "U+2C69", "U+2C6B", "U+2C72", "U+2C75", "Ⲁ", "Ⲃ", "Ⲅ", "Ⲇ", "Ⲉ",
            "Ⲋ", "Ⲍ", "Ⲏ", "Ⲑ", "Ⲓ", "Ⲕ", "Ⲗ", "Ⲙ", "Ⲛ", "Ⲝ", "Ⲟ", "Ⲡ", "Ⲣ", "Ⲥ", "Ⲧ", "Ⲩ",
            "Ⲫ", "Ⲭ", "Ⲯ", "Ⲱ", "Ⲳ", "Ⲵ", "Ⲷ", "Ⲹ", "Ⲻ", "Ⲽ", "Ⲿ", "Ⳁ", "Ⳃ", "Ⳅ", "Ⳇ", "Ⳉ",
            "Ⳋ", "Ⳍ", "Ⳏ", "Ⳑ", "Ⳓ", "Ⳕ", "Ⳗ", "Ⳙ", "Ⳛ", "Ⳝ", "Ⳟ", "Ⳡ", "Ⳣ", "Ⳬ", "Ⳮ", "Ⳳ",
            "Ⴀ", "Ⴁ", "Ⴂ", "Ⴃ", "Ⴄ", "Ⴅ", "Ⴆ", "Ⴇ", "Ⴈ", "Ⴉ", "Ⴊ", "Ⴋ", "Ⴌ", "Ⴍ", "Ⴎ", "Ⴏ",
            "Ⴐ", "Ⴑ", "Ⴒ", "Ⴓ", "Ⴔ", "Ⴕ", "Ⴖ", "Ⴗ", "Ⴘ", "Ⴙ", "Ⴚ", "Ⴛ", "Ⴜ", "Ⴝ", "Ⴞ", "Ⴟ",
            "Ⴠ", "Ⴡ", "Ⴢ", "Ⴣ", "Ⴤ", "Ⴥ", "Ⴧ", "Ⴭ", "U+A640", "U+A642", "U+A644", "U+A646", "U+A648", "U+A64A", "U+A64C", "U+A64E",
            "U+A650", "U+A652", "U+A654", "U+A656", "U+A658", "U+A65A", "U+A65C", "U+A65E", "U+A660", "U+A662", "U+A664", "U+A666", "U+A668", "U+A66A", "U+A66C", "Ꚁ",
            "Ꚃ", "Ꚅ", "Ꚇ", "Ꚉ", "Ꚋ", "Ꚍ", "Ꚏ", "Ꚑ", "Ꚓ", "Ꚕ", "Ꚗ", "Ꚙ", "Ꚛ", "U+A722", "U+A724", "U+A726",
            "U+A728", "U+A72A", "U+A72C", "U+A72E", "U+A732", "U+A734", "U+A736", "U+A738", "U+A73A", "U+A73C", "U+A73E", "U+A740", "U+A742", "U+A744", "U+A746", "U+A748",
            "U+A74A", "U+A74C", "U+A74E", "U+A750", "U+A752", "U+A754", "U+A756", "U+A758", "U+A75A", "U+A75C", "U+A75E", "U+A760", "U+A762", "U+A764", "U+A766", "U+A768",
            "U+A76A", "U+A76C", "U+A76E", "U+A779", "U+A77B", "U+A77E", "Ꞁ", "Ꞃ", "Ꞅ", "Ꞇ", "Ꞌ", "Ꞑ", "Ꞓ", "Ꞔ", "Ꞗ", "Ꞙ",
            "Ꞛ", "Ꞝ", "Ꞟ", "Ꞡ", "Ꞣ", "Ꞥ", "Ꞧ", "Ꞩ", "Ꞵ", "Ꞷ", "Ꞹ", "Ꞻ", "Ꞽ", "Ꞿ", "Ꟁ", "Ꟃ",
            "Ꟈ", "Ꟊ", "Ꟑ", "Ꟗ", "Ꟙ", "Ꟶ", "Ꭓ", "Ꭰ", "Ꭱ", "Ꭲ", "Ꭳ", "Ꭴ", "Ꭵ", "Ꭶ", "Ꭷ", "Ꭸ",
            "Ꭹ", "Ꭺ", "Ꭻ", "Ꭼ", "Ꭽ", "Ꭾ", "Ꭿ", "Ꮀ", "Ꮁ", "Ꮂ", "Ꮃ", "Ꮄ", "Ꮅ", "Ꮆ", "Ꮇ", "Ꮈ",
            "Ꮉ", "Ꮊ", "Ꮋ", "Ꮌ", "Ꮍ", "Ꮎ", "Ꮏ", "Ꮐ", "Ꮑ", "Ꮒ", "Ꮓ", "Ꮔ", "Ꮕ", "Ꮖ", "Ꮗ", "Ꮘ",
            "Ꮙ", "Ꮚ", "Ꮛ", "Ꮜ", "Ꮝ", "Ꮞ", "Ꮟ", "Ꮠ", "Ꮡ", "Ꮢ", "Ꮣ", "Ꮤ", "Ꮥ", "Ꮦ", "Ꮧ", "Ꮨ",
            "Ꮩ", "Ꮪ", "Ꮫ", "Ꮬ", "Ꮭ", "Ꮮ", "Ꮯ", "Ꮰ", "Ꮱ", "Ꮲ", "Ꮳ", "Ꮴ", "Ꮵ", "Ꮶ", "Ꮷ", "Ꮸ",
            "Ꮹ", "Ꮺ", "Ꮻ", "Ꮼ", "Ꮽ", "Ꮾ", "Ꮿ", "U+FF21", "U+FF22", "U+FF23", "U+FF24", "U+FF25", "U+FF26", "U+FF27", "U+FF28", "U+FF29",
            "U+FF2A", "U+FF2B", "U+FF2C", "U+FF2D", "U+FF2E", "U+FF2F", "U+FF30", "U+FF31", "U+FF32", "U+FF33", "U+FF34", "U+FF35", "U+FF36", "U+FF37", "U+FF38", "U+FF39",
            "U+FF3A", "U+10400", "U+10401", "U+10402", "U+10403", "U+10404", "U+10405", "U+10406", "U+10407", "U+10408", "U+10409", "U+1040A", "U+1040B", "U+1040C", "U+1040D", "U+1040E",
            "U+1040F", "U+10410", "U+10411", "U+10412", "U+10413", "U+10414", "U+10415", "U+10416", "U+10417", "U+10418", "U+10419", "U+1041A", "U+1041B", "U+1041C", "U+1041D", "U+1041E",
            "U+1041F", "U+10420", "U+10421", "U+10422", "U+10423", "U+10424", "U+10425", "U+10426", "U+10427", "U+104B0", "U+104B1", "U+104B2", "U+104B3", "U+104B4", "U+104B5", "U+104B6",
            "U+104B7", "U+104B8", "U+104B9", "U+104BA", "U+104BB", "U+104BC", "U+104BD", "U+104BE", "U+104BF", "U+104C0", "U+104C1", "U+104C2", "U+104C3", "U+104C4", "U+104C5", "U+104C6",
            "U+104C7", "U+104C8", "U+104C9", "U+104CA", "U+104CB", "U+104CC", "U+104CD", "U+104CE", "U+104CF", "U+104D0", "U+104D1", "U+104D2", "U+104D3", "U+10570", "U+10571", "U+10572",
            "U+10573", "U+10574", "U+10575", "U+10576", "U+10577", "U+10578", "U+10579", "U+1057A", "U+1057C", "U+1057D", "U+1057E", "U+1057F", "U+10580", "U+10581", "U+10582", "U+10583",
            "U+10584", "U+10585", "U+10586", "U+10587", "U+10588", "U+10589", "U+1058A", "U+1058C", "U+1058D", "U+1058E", "U+1058F", "U+10590", "U+10591", "U+10592", "U+10594", "U+10595",
            "U+10C80", "U+10C81", "U+10C82", "U+10C83", "U+10C84", "U+10C85", "U+10C86", "U+10C87", "U+10C88", "U+10C89", "U+10C8A", "U+10C8B", "U+10C8C", "U+10C8D", "U+10C8E", "U+10C8F",
            "U+10C90", "U+10C91", "U+10C92", "U+10C93", "U+10C94", "U+10C95", "U+10C96", "U+10C97", "U+10C98", "U+10C99", "U+10C9A", "U+10C9B", "U+10C9C", "U+10C9D", "U+10C9E", "U+10C9F",
            "U+10CA0", "U+10CA1", "U+10CA2", "U+10CA3", "U+10CA4", "U+10CA5", "U+10CA6", "U+10CA7", "U+10CA8", "U+10CA9", "U+10CAA", "U+10CAB", "U+10CAC", "U+10CAD", "U+10CAE", "U+10CAF",
            "U+10CB0", "U+10CB1", "U+10CB2", "U+118A0", "U+118A1", "U+118A2", "U+118A3", "U+118A4", "U+118A5", "U+118A6", "U+118A7", "U+118A8", "U+118A9", "U+118AA", "U+118AB", "U+118AC",
            "U+118AD", "U+118AE", "U+118AF", "U+118B0", "U+118B1", "U+118B2", "U+118B3", "U+118B4", "U+118B5", "U+118B6", "U+118B7", "U+118B8", "U+118B9", "U+118BA", "U+118BB", "U+118BC",
            "U+118BD", "U+118BE", "U+118BF", "U+16E40", "U+16E41", "U+16E42", "U+16E43", "U+16E44", "U+16E45", "U+16E46", "U+16E47", "U+16E48", "U+16E49", "U+16E4A", "U+16E4B", "U+16E4C",
            "U+16E4D", "U+16E4E", "U+16E4F", "U+16E50", "U+16E51", "U+16E52", "U+16E53", "U+16E54", "U+16E55", "U+16E56", "U+16E57", "U+16E58", "U+16E59", "U+16E5A", "U+16E5B", "U+16E5C",
            "U+16E5D", "U+16E5E", "U+16E5F", "U+1E900", "U+1E901", "U+1E902", "U+1E903", "U+1E904", "U+1E905", "U+1E906", "U+1E907", "U+1E908", "U+1E909", "U+1E90A", "U+1E90B", "U+1E90C",
            "U+1E90D", "U+1E90E", "U+1E90F", "U+1E910", "U+1E911", "U+1E912", "U+1E913", "U+1E914", "U+1E915", "U+1E916", "U+1E917", "U+1E918", "U+1E919", "U+1E91A", "U+1E91B", "U+1E91C",
            "U+1E91D", "U+1E91E", "U+1E91F", "U+1E920", "U+1E921"
          >>
        second ==
          <<
            "U+0308", "U+0308", "U+0313", "U+0313", "U+0313", "U+0342", "U+0342", "U+0308", "U+0308", "U+0308", "U+0308", "U+0308", "U+0308", "U+0342", "F", "F",
            "S", "N", "U+030C", "U+0552", "U+0331", "U+0308", "U+030A", "U+030A", "ʾ", "U+0313", "Ι", "Ι", "Ι", "Ι", "Ι", "Ι",
            "Ι", "Ι", "Ι", "Ι", "Ι", "Ι", "Ι", "Ι", "Ι", "Ι", "Ι", "Ι", "Ι", "Ι", "Ι", "Ι",
            "Ι", "Ι", "Ι", "Ι", "Ι", "Ι", "Ι", "Ι", "Ι", "Ι", "Ι", "Ι", "Ι", "Ι", "Ι", "Ι",
            "Ι", "Ι", "Ι", "Ι", "Ι", "Ι", "Ι", "Ι", "Ι", "Ι", "Ι", "Ι", "Ι", "U+0342", "Ι", "Ι",
            "Ι", "Ι", "U+0342", "Ι", "U+0342", "U+0313", "U+0342", "Ι", "Ι", "Ι", "U+0342", "Ι", "F", "I", "L", "T",
            "T", "U+0546", "U+0535", "U+053B", "U+0546", "U+053D"
          >>
        third ==
          <<
            "U+0301", "U+0301", "U+0300", "U+0301", "U+0342", "Ι", "Ι", "U+0300", "U+0301", "U+0342", "U+0300", "U+0301", "U+0342", "Ι", "I", "L"
          >>
        at == CHOOSE i \in 1..Len(from) : from[i] = c
    IN  IF \E i \in 1..Len(from) : from[i] = c
        THEN <<first[at]>> \o (IF at <= Len(second) THEN <<second[at]>> ELSE << >>)
                          \o (IF at <= Len(third) THEN <<third[at]>> ELSE << >>)
        ELSE <<c>>

\* str.lower(): character by character, except that a capital sigma becomes the
\* final sigma when a cased letter comes before it and none after it, the
\* case-ignorable characters in between not counted (Cased holds the cased
\* characters that are not case-ignorable)
Lower(s) ==
    LET Cased ==
          {
            "A", "B", "C", "D", "E", "F", "G", "H", "I", "J", "K", "L", "M", "N", "O", "P",
            "Q", "R", "S", "T", "U", "V", "W", "X", "Y", "Z", "a", "b", "c", "d", "e", "f",
            "g", "h", "i", "j", "k", "l", "m", "n", "o", "p", "q", "r", "s", "t", "u", "v",
            "w", "x", "y", "z", "ª", "µ", "º", "À", "Á", "Â", "Ã", "Ä", "Å", "Æ", "Ç", "È",
            "É", "Ê", "Ë", "Ì", "Í", "Î", "Ï", "Ð", "Ñ", "Ò", "Ó", "Ô", "Õ", "Ö", "Ø", "Ù",
            "Ú", "Û", "Ü", "Ý", "Þ", "ß", "à", "á", "â", "ã", "ä", "å", "æ", "ç", "è", "é",
            "ê", "ë", "ì", "í", "î", "ï", "ð", "ñ", "ò", "ó", "ô", "õ", "ö", "ø", "ù", "ú",
            "û", "ü", "ý", "þ", "ÿ", "U+0100", "U+0101", "U+0102", "U+0103", "U+0104", "U+0105", "U+0106", "U+0107", "U+0108", "U+0109", "U+010A",
            "U+010B", "U+010C", "U+010D", "U+010E", "U+010F", "U+0110", "U+0111", "U+0112", "U+0113", "U+0114", "U+0115", "U+0116", "U+0117", "U+0118", "U+0119", "U+011A",
            "U+011B", "U+011C", "U+011D", "U+011E", "U+011F", "U+0120", "U+0121", "U+0122", "U+0123", "U+0124", "U+0125", "U+0126", "U+0127", "U+0128", "U+0129", "U+012A",
            "U+012B", "U+012C", "U+012D", "U+012E", "U+012F", "U+0130", "U+0131", "U+0132", "U+0133", "U+0134", "U+0135", "U+0136", "U+0137", "U+0138", "U+0139", "U+013A",
            "U+013B", "U+013C", "U+013D", "U+013E", "U+013F", "U+0140", "U+0141", "U+0142", "U+0143", "U+0144", "U+0145", "U+0146", "U+0147", "U+0148", "U+0149", "U+014A",
            "U+014B", "U+014C", "U+014D", "U+014E", "U+014F", "U+0150", "U+0151", "U+0152", "U+0153", "U+0154", "U+0155", "U+0156", "U+0157", "U+0158", "U+0159", "U+015A",
            "U+015B", "U+015C", "U+015D", "U+015E", "U+015F", "U+0160", "U+0161", "U+0162", "U+0163", "U+0164", "U+0165", "U+0166", "U+0167", "U+0168", "U+0169", "U+016A",
            "U+016B", "U+016C", "U+016D", "U+016E", "U+016F", "U+0170", "U+0171", "U+0172", "U+0173", "U+0174", "U+0175", "U+0176", "U+0177", "U+0178", "U+0179", "U+017A",
            "U+017B", "U+017C", "U+017D", "U+017E", "U+017F", "ƀ", "Ɓ", "Ƃ", "ƃ", "Ƅ", "ƅ", "Ɔ", "Ƈ", "ƈ", "Ɖ", "Ɗ",
            "Ƌ", "ƌ", "ƍ", "Ǝ", "Ə", "Ɛ", "Ƒ", "ƒ", "Ɠ", "Ɣ", "ƕ", "Ɩ", "Ɨ", "Ƙ", "ƙ", "ƚ",
            "ƛ", "Ɯ", "Ɲ", "ƞ", "Ɵ", "Ơ", "ơ", "Ƣ", "ƣ", "Ƥ", "ƥ", "Ʀ", "Ƨ", "ƨ", "Ʃ", "ƪ",
            "ƫ", "Ƭ", "ƭ", "Ʈ", "Ư", "ư", "Ʊ", "Ʋ", "Ƴ", "ƴ", "Ƶ", "ƶ", "Ʒ", "Ƹ", "ƹ", "ƺ",
            "Ƽ", "ƽ", "ƾ", "ƿ", "Ǆ", "ǅ", "ǆ", "Ǉ", "ǈ", "ǉ", "Ǌ", "ǋ", "ǌ", "Ǎ", "ǎ", "Ǐ",
            "ǐ", "Ǒ", "ǒ", "Ǔ", "ǔ", "Ǖ", "ǖ", "Ǘ", "ǘ", "Ǚ", "ǚ", "Ǜ", "ǜ", "ǝ", "Ǟ", "ǟ",
            "Ǡ", "ǡ", "Ǣ", "ǣ", "Ǥ", "ǥ", "Ǧ", "ǧ", "Ǩ", "ǩ", "Ǫ", "ǫ", "Ǭ", "ǭ", "Ǯ", "ǯ",
            "ǰ", "Ǳ", "ǲ", "ǳ", "Ǵ", "ǵ", "Ƕ", "Ƿ", "Ǹ", "ǹ", "Ǻ", "ǻ", "Ǽ", "ǽ", "Ǿ", "ǿ",
            "U+0200", "U+0201", "U+0202", "U+0203", "U+0204", "U+0205", "U+0206", "U+0207", "U+0208", "U+0209", "U+020A", "U+020B", "U+020C", "U+020D", "U+020E", "U+020F",
            "U+0210", "U+0211", "U+0212", "U+0213", "U+0214", "U+0215", "U+0216", "U+0217", "U+0218", "U+0219", "U+021A", "U+021B", "U+021C", "U+021D", "U+021E", "U+021F",
            "U+0220", "U+0221", "U+0222", "U+0223", "U+0224", "U+0225", "U+0226", "U+0227", "U+0228", "U+0229", "U+022A", "U+022B", "U+022C", "U+022D", "U+022E", "U+022F",
            "U+0230", "U+0231", "U+0232", "U+0233", "U+0234", "U+0235", "U+0236", "U+0237", "U+0238", "U+0239", "U+023A", "U+023B", "U+023C", "U+023D", "U+023E", "U+023F",
            "U+0240", "U+0241", "U+0242", "U+0243", "U+0244", "U+0245", "U+0246", "U+0247", "U+0248", "U+0249", "U+024A", "U+024B", "U+024C", "U+024D", "U+024E", "U+024F",
            "U+0250", "U+0251", "U+0252", "U+0253", "U+0254", "U+0255", "U+0256", "U+0257", "U+0258", "U+0259", "U+025A", "U+025B", "U+025C", "U+025D", "U+025E", "U+025F",
            "U+0260", "U+0261", "U+0262", "U+0263", "U+0264", "U+0265", "U+0266", "U+0267", "U+0268", "U+0269", "U+026A", "U+026B", "U+026C", "U+026D", "U+026E", "U+026F",
            "U+0270", "U+0271", "U+0272", "U+0273", "U+0274", "U+0275", "U+0276", "U+0277", "U+0278", "U+0279", "U+027A", "U+027B", "U+027C", "U+027D", "U+027E", "U+027F",
            "ʀ", "ʁ", "ʂ", "ʃ", "ʄ", "ʅ", "ʆ", "ʇ", "ʈ", "ʉ", "ʊ", "ʋ", "ʌ", "ʍ", "ʎ", "ʏ",
            "ʐ", "ʑ", "ʒ", "ʓ", "ʕ", "ʖ", "ʗ", "ʘ", "ʙ", "ʚ", "ʛ", "ʜ", "ʝ", "ʞ", "ʟ", "ʠ",
            "ʡ", "ʢ", "ʣ", "ʤ", "ʥ", "ʦ", "ʧ", "ʨ", "ʩ", "ʪ", "ʫ", "ʬ", "ʭ", "ʮ", "ʯ", "U+0370",
            "U+0371", "U+0372", "U+0373", "U+0376", "U+0377", "U+037B", "U+037C", "U+037D", "U+037F", "Ά", "Έ", "Ή", "Ί", "Ό", "Ύ", "Ώ",
            "ΐ", "Α", "Β", "Γ", "Δ", "Ε", "Ζ", "Η", "Θ", "Ι", "Κ", "Λ", "Μ", "Ν", "Ξ", "Ο",
            "Π", "Ρ", "Σ", "Τ", "Υ", "Φ", "Χ", "Ψ", "Ω", "Ϊ", "Ϋ", "ά", "έ", "ή", "ί", "ΰ",
            "α", "β", "γ", "δ", "ε", "ζ", "η", "θ", "ι", "κ", "λ", "μ", "ν", "ξ", "ο", "π",
            "ρ", "ς", "σ", "τ", "υ", "φ", "χ", "ψ", "ω", "ϊ", "ϋ", "ό", "ύ", "ώ", "Ϗ", "ϐ",
            "ϑ", "ϒ", "ϓ", "ϔ", "ϕ", "ϖ", "ϗ", "Ϙ", "ϙ", "Ϛ", "ϛ", "Ϝ", "ϝ", "Ϟ", "ϟ", "Ϡ",
            "ϡ", "Ϣ", "ϣ", "Ϥ", "ϥ", "Ϧ", "ϧ", "Ϩ", "ϩ", "Ϫ", "ϫ", "Ϭ", "ϭ", "Ϯ", "ϯ", "ϰ",
            "ϱ", "ϲ", "ϳ", "ϴ", "ϵ", "Ϸ", "ϸ", "Ϲ", "Ϻ", "ϻ", "ϼ", "Ͻ", "Ͼ", "Ͽ", "U+0400", "U+0401",
            "U+0402", "U+0403", "U+0404", "U+0405", "U+0406", "U+0407", "U+0408", "U+0409", "U+040A", "U+040B", "U+040C", "U+040D", "U+040E", "U+040F", "U+0410", "U+0411",
            "U+0412", "U+0413", "U+0414", "U+0415", "U+0416", "U+0417", "U+0418", "U+0419", "U+041A", "U+041B", "U+041C", "U+041D", "U+041E", "U+041F", "U+0420", "U+0421",
            "U+0422", "U+0423", "U+0424", "U+0425", "U+0426", "U+0427", "U+0428", "U+0429", "U+042A", "U+042B", "U+042C", "U+042D", "U+042E", "U+042F", "U+0430", "U+0431",
            "U+0432", "U+0433", "U+0434", "U+0435", "U+0436", "U+0437", "U+0438", "U+0439", "U+043A", "U+043B", "U+043C", "U+043D", "U+043E", "U+043F", "U+0440", "U+0441",
            "U+0442", "U+0443", "U+0444", "U+0445", "U+0446", "U+0447", "U+0448", "U+0449", "U+044A", "U+044B", "U+044C", "U+044D", "U+044E", "U+044F", "U+0450", "U+0451",
            "U+0452", "U+0453", "U+0454", "U+0455", "U+0456", "U+0457", "U+0458", "U+0459", "U+045A", "U+045B", "U+045C", "U+045D", "U+045E", "U+045F", "U+0460", "U+0461",
            "U+0462", "U+0463", "U+0464", "U+0465", "U+0466", "U+0467", "U+0468", "U+0469", "U+046A", "U+046B", "U+046C", "U+046D", "U+046E", "U+046F", "U+0470", "U+0471",
            "U+0472", "U+0473", "U+0474", "U+0475", "U+0476", "U+0477", "U+0478", "U+0479", "U+047A", "U+047B", "U+047C", "U+047D", "U+047E", "U+047F", "Ҁ", "ҁ",
            "Ҋ", "ҋ", "Ҍ", "ҍ", "Ҏ", "ҏ", "Ґ", "ґ", "Ғ", "ғ", "Ҕ", "ҕ", "Җ", "җ", "Ҙ", "ҙ",
            "Қ", "қ", "Ҝ", "ҝ", "Ҟ", "ҟ", "Ҡ", "ҡ", "Ң", "ң", "Ҥ", "ҥ", "Ҧ", "ҧ", "Ҩ", "ҩ",
            "Ҫ", "ҫ", "Ҭ", "ҭ", "Ү", "ү", "Ұ", "ұ", "Ҳ", "ҳ", "Ҵ", "ҵ", "Ҷ", "ҷ", "Ҹ", "ҹ",
            "Һ", "һ", "Ҽ", "ҽ", "Ҿ", "ҿ", "Ӏ", "Ӂ", "ӂ", "Ӄ", "ӄ", "Ӆ", "ӆ", "Ӈ", "ӈ", "Ӊ",
            "ӊ", "Ӌ", "ӌ", "Ӎ", "ӎ", "ӏ", "Ӑ", "ӑ", "Ӓ", "ӓ", "Ӕ", "ӕ", "Ӗ", "ӗ", "Ә", "ә",
            "Ӛ", "ӛ", "Ӝ", "ӝ", "Ӟ", "ӟ", "Ӡ", "ӡ", "Ӣ", "ӣ", "Ӥ", "ӥ", "Ӧ", "ӧ", "Ө", "ө",
            "Ӫ", "ӫ", "Ӭ", "ӭ", "Ӯ", "ӯ", "Ӱ", "ӱ", "Ӳ", "ӳ", "Ӵ", "ӵ", "Ӷ", "ӷ", "Ӹ", "ӹ",
            "Ӻ", "ӻ", "Ӽ", "ӽ", "Ӿ", "ӿ", "U+0500", "U+0501", "U+0502", "U+0503", "U+0504", "U+0505", "U+0506", "U+0507", "U+0508", "U+0509",
            "U+050A", "U+050B", "U+050C", "U+050D", "U+050E", "U+050F", "U+0510", "U+0511", "U+0512", "U+0513", "U+0514", "U+0515", "U+0516", "U+0517", "U+0518", "U+0519",
            "U+051A", "U+051B", "U+051C", "U+051D", "U+051E", "U+051F", "U+0520", "U+0521", "U+0522", "U+0523", "U+0524", "U+0525", "U+0526", "U+0527", "U+0528", "U+0529",
            "U+052A", "U+052B", "U+052C", "U+052D", "U+052E", "U+052F", "U+0531", "U+0532", "U+0533", "U+0534", "U+0535", "U+0536", "U+0537", "U+0538", "U+0539", "U+053A",
            "U+053B", "U+053C", "U+053D", "U+053E", "U+053F", "U+0540", "U+0541", "U+0542", "U+0543", "U+0544", "U+0545", "U+0546", "U+0547", "U+0548", "U+0549", "U+054A",
            "U+054B", "U+054C", "U+054D", "U+054E", "U+054F", "U+0550", "U+0551", "U+0552", "U+0553", "U+0554", "U+0555", "U+0556", "U+0560", "U+0561", "U+0562", "U+0563",
            "U+0564", "U+0565", "U+0566", "U+0567", "U+0568", "U+0569", "U+056A", "U+056B", "U+056C", "U+056D", "U+056E", "U+056F", "U+0570", "U+0571", "U+0572", "U+0573",
            "U+0574", "U+0575", "U+0576", "U+0577", "U+0578", "U+0579", "U+057A", "U+057B", "U+057C", "U+057D", "U+057E", "U+057F", "ր", "ց", "ւ", "փ",
            "ք", "օ", "ֆ", "և", "ֈ", "Ⴀ", "Ⴁ", "Ⴂ", "Ⴃ", "Ⴄ", "Ⴅ", "Ⴆ", "Ⴇ", "Ⴈ", "Ⴉ", "Ⴊ",
            "Ⴋ", "Ⴌ", "Ⴍ", "Ⴎ", "Ⴏ", "Ⴐ", "Ⴑ", "Ⴒ", "Ⴓ", "Ⴔ", "Ⴕ", "Ⴖ", "Ⴗ", "Ⴘ", "Ⴙ", "Ⴚ",
            "Ⴛ", "Ⴜ", "Ⴝ", "Ⴞ", "Ⴟ", "Ⴠ", "Ⴡ", "Ⴢ", "Ⴣ", "Ⴤ", "Ⴥ", "Ⴧ", "Ⴭ", "ა", "ბ", "გ",
            "დ", "ე", "ვ", "ზ", "თ", "ი", "კ", "ლ", "მ", "ნ", "ო", "პ", "ჟ", "რ", "ს", "ტ",
            "უ", "ფ", "ქ", "ღ", "ყ", "შ", "ჩ", "ც", "ძ", "წ", "ჭ", "ხ", "ჯ", "ჰ", "ჱ", "ჲ",
            "ჳ", "ჴ", "ჵ", "ჶ", "ჷ", "ჸ", "ჹ", "ჺ", "ჽ", "ჾ", "ჿ", "Ꭰ", "Ꭱ", "Ꭲ", "Ꭳ", "Ꭴ",
            "Ꭵ", "Ꭶ", "Ꭷ", "Ꭸ", "Ꭹ", "Ꭺ", "Ꭻ", "Ꭼ", "Ꭽ", "Ꭾ", "Ꭿ", "Ꮀ", "Ꮁ", "Ꮂ", "Ꮃ", "Ꮄ",
            "Ꮅ", "Ꮆ", "Ꮇ", "Ꮈ", "Ꮉ", "Ꮊ", "Ꮋ", "Ꮌ", "Ꮍ", "Ꮎ", "Ꮏ", "Ꮐ", "Ꮑ", "Ꮒ", "Ꮓ", "Ꮔ",
            "Ꮕ", "Ꮖ", "Ꮗ", "Ꮘ", "Ꮙ", "Ꮚ", "Ꮛ", "Ꮜ", "Ꮝ", "Ꮞ", "Ꮟ", "Ꮠ", "Ꮡ", "Ꮢ", "Ꮣ", "Ꮤ",
            "Ꮥ", "Ꮦ", "Ꮧ", "Ꮨ", "Ꮩ", "Ꮪ", "Ꮫ", "Ꮬ", "Ꮭ", "Ꮮ", "Ꮯ", "Ꮰ", "Ꮱ", "Ꮲ", "Ꮳ", "Ꮴ",
            "Ꮵ", "Ꮶ", "Ꮷ", "Ꮸ", "Ꮹ", "Ꮺ", "Ꮻ", "Ꮼ", "Ꮽ", "Ꮾ", "Ꮿ", "Ᏸ", "Ᏹ", "Ᏺ", "Ᏻ", "Ᏼ",
            "Ᏽ", "ᏸ", "ᏹ", "ᏺ", "ᏻ", "ᏼ", "ᏽ", "ᲀ", "ᲁ", "ᲂ", "ᲃ", "ᲄ", "ᲅ", "ᲆ", "ᲇ", "ᲈ",
            "Ა", "Ბ", "Გ", "Დ", "Ე", "Ვ", "Ზ", "Თ", "Ი", "Კ", "Ლ", "Მ", "Ნ", "Ო", "Პ", "Ჟ",
            "Რ", "Ს", "Ტ", "Უ", "Ფ", "Ქ", "Ღ", "Ყ", "Შ", "Ჩ", "Ც", "Ძ", "Წ", "Ჭ", "Ხ", "Ჯ",
            "Ჰ", "Ჱ", "Ჲ", "Ჳ", "Ჴ", "Ჵ", "Ჶ", "Ჷ", "Ჸ", "Ჹ", "Ჺ", "Ჽ", "Ჾ", "Ჿ", "U+1D00", "U+1D01",
            "U+1D02", "U+1D03", "U+1D04", "U+1D05", "U+1D06", "U+1D07", "U+1D08", "U+1D09", "U+1D0A", "U+1D0B", "U+1D0C", "U+1D0D", "U+1D0E", "U+1D0F", "U+1D10", "U+1D11",
            "U+1D12", "U+1D13", "U+1D14", "U+1D15", "U+1D16", "U+1D17", "U+1D18", "U+1D19", "U+1D1A", "U+1D1B", "U+1D1C", "U+1D1D", "U+1D1E", "U+1D1F", "U+1D20", "U+1D21",
            "U+1D22", "U+1D23", "U+1D24", "U+1D25", "U+1D26", "U+1D27", "U+1D28", "U+1D29", "U+1D2A", "U+1D2B", "U+1D6B", "U+1D6C", "U+1D6D", "U+1D6E", "U+1D6F", "U+1D70",
            "U+1D71", "U+1D72", "U+1D73", "U+1D74", "U+1D75", "U+1D76", "U+1D77", "U+1D79", "U+1D7A", "U+1D7B", "U+1D7C", "U+1D7D", "U+1D7E", "U+1D7F", "ᶀ", "ᶁ",
            "ᶂ", "ᶃ", "ᶄ", "ᶅ", "ᶆ", "ᶇ", "ᶈ", "ᶉ", "ᶊ", "ᶋ", "ᶌ", "ᶍ", "ᶎ", "ᶏ", "ᶐ", "ᶑ",
            "ᶒ", "ᶓ", "ᶔ", "ᶕ", "ᶖ", "ᶗ", "ᶘ", "ᶙ", "ᶚ", "U+1E00", "U+1E01", "U+1E02", "U+1E03", "U+1E04", "U+1E05", "U+1E06",
            "U+1E07", "U+1E08", "U+1E09", "U+1E0A", "U+1E0B", "U+1E0C", "U+1E0D", "U+1E0E", "U+1E0F", "U+1E10", "U+1E11", "U+1E12", "U+1E13", "U+1E14", "U+1E15", "U+1E16",
            "U+1E17", "U+1E18", "U+1E19", "U+1E1A", "U+1E1B", "U+1E1C", "U+1E1D", "U+1E1E", "U+1E1F", "U+1E20", "U+1E21", "U+1E22", "U+1E23", "U+1E24", "U+1E25", "U+1E26",
            "U+1E27", "U+1E28", "U+1E29", "U+1E2A", "U+1E2B", "U+1E2C", "U+1E2D", "U+1E2E", "U+1E2F", "U+1E30", "U+1E31", "U+1E32", "U+1E33", "U+1E34", "U+1E35", "U+1E36",
            "U+1E37", "U+1E38", "U+1E39", "U+1E3A", "U+1E3B", "U+1E3C", "U+1E3D", "U+1E3E", "U+1E3F", "U+1E40", "U+1E41", "U+1E42", "U+1E43", "U+1E44", "U+1E45", "U+1E46",
            "U+1E47", "U+1E48", "U+1E49", "U+1E4A", "U+1E4B", "U+1E4C", "U+1E4D", "U+1E4E", "U+1E4F", "U+1E50", "U+1E51", "U+1E52", "U+1E53", "U+1E54", "U+1E55", "U+1E56",
            "U+1E57", "U+1E58", "U+1E59", "U+1E5A", "U+1E5B", "U+1E5C", "U+1E5D", "U+1E5E", "U+1E5F", "U+1E60", "U+1E61", "U+1E62", "U+1E63", "U+1E64", "U+1E65", "U+1E66",
            "U+1E67", "U+1E68", "U+1E69", "U+1E6A", "U+1E6B", "U+1E6C", "U+1E6D", "U+1E6E", "U+1E6F", "U+1E70", "U+1E71", "U+1E72", "U+1E73", "U+1E74", "U+1E75", "U+1E76",
            "U+1E77", "U+1E78", "U+1E79", "U+1E7A", "U+1E7B", "U+1E7C", "U+1E7D", "U+1E7E", "U+1E7F", "Ẁ", "ẁ", "Ẃ", "ẃ", "Ẅ", "ẅ", "Ẇ",
            "ẇ", "Ẉ", "ẉ", "Ẋ", "ẋ", "Ẍ", "ẍ", "Ẏ", "ẏ", "Ẑ", "ẑ", "Ẓ", "ẓ", "Ẕ", "ẕ", "ẖ",
            "ẗ", "ẘ", "ẙ", "ẚ", "ẛ", "ẜ", "ẝ", "ẞ", "ẟ", "Ạ", "ạ", "Ả", "ả", "Ấ", "ấ", "Ầ",
            "ầ", "Ẩ", "ẩ", "Ẫ", "ẫ", "Ậ", "ậ", "Ắ", "ắ", "Ằ", "ằ", "Ẳ", "ẳ", "Ẵ", "ẵ", "Ặ",
            "ặ", "Ẹ", "ẹ", "Ẻ", "ẻ", "Ẽ", "ẽ", "Ế", "ế", "Ề", "ề", "Ể", "ể", "Ễ", "ễ", "Ệ",
            "ệ", "Ỉ", "ỉ", "Ị", "ị", "Ọ", "ọ", "Ỏ", "ỏ", "Ố", "ố", "Ồ", "ồ", "Ổ", "ổ", "Ỗ",
            "ỗ", "Ộ", "ộ", "Ớ", "ớ", "Ờ", "ờ", "Ở", "ở", "Ỡ", "ỡ", "Ợ", "ợ", "Ụ", "ụ", "Ủ",
            "ủ", "Ứ", "ứ", "Ừ", "ừ", "Ử", "ử", "Ữ", "ữ", "Ự", "ự", "Ỳ", "ỳ", "Ỵ", "ỵ", "Ỷ",
            "ỷ", "Ỹ", "ỹ", "Ỻ", "ỻ", "Ỽ", "ỽ", "Ỿ", "ỿ", "U+1F00", "U+1F01", "U+1F02", "U+1F03", "U+1F04", "U+1F05", "U+1F06",
            "U+1F07", "U+1F08", "U+1F09", "U+1F0A", "U+1F0B", "U+1F0C", "U+1F0D", "U+1F0E", "U+1F0F", "U+1F10", "U+1F11", "U+1F12", "U+1F13", "U+1F14", "U+1F15", "U+1F18",
            "U+1F19", "U+1F1A", "U+1F1B", "U+1F1C", "U+1F1D", "U+1F20", "U+1F21", "U+1F22", "U+1F23", "U+1F24", "U+1F25", "U+1F26", "U+1F27", "U+1F28", "U+1F29", "U+1F2A",
            "U+1F2B", "U+1F2C", "U+1F2D", "U+1F2E", "U+1F2F", "U+1F30", "U+1F31", "U+1F32", "U+1F33", "U+1F34", "U+1F35", "U+1F36", "U+1F37", "U+1F38", "U+1F39", "U+1F3A",
            "U+1F3B", "U+1F3C", "U+1F3D", "U+1F3E", "U+1F3F", "U+1F40", "U+1F41", "U+1F42", "U+1F43", "U+1F44", "U+1F45", "U+1F48", "U+1F49", "U+1F4A", "U+1F4B", "U+1F4C",
            "U+1F4D", "U+1F50", "U+1F51", "U+1F52", "U+1F53", "U+1F54", "U+1F55", "U+1F56", "U+1F57", "U+1F59", "U+1F5B", "U+1F5D", "U+1F5F", "U+1F60", "U+1F61", "U+1F62",
            "U+1F63", "U+1F64", "U+1F65", "U+1F66", "U+1F67", "U+1F68", "U+1F69", "U+1F6A", "U+1F6B", "U+1F6C", "U+1F6D", "U+1F6E", "U+1F6F", "U+1F70", "U+1F71", "U+1F72",
            "U+1F73", "U+1F74", "U+1F75", "U+1F76", "U+1F77", "U+1F78", "U+1F79", "U+1F7A", "U+1F7B", "U+1F7C", "U+1F7D", "ᾀ", "ᾁ", "ᾂ", "ᾃ", "ᾄ",
            "ᾅ", "ᾆ", "ᾇ", "ᾈ", "ᾉ", "ᾊ", "ᾋ", "ᾌ", "ᾍ", "ᾎ", "ᾏ", "ᾐ", "ᾑ", "ᾒ", "ᾓ", "ᾔ",
            "ᾕ", "ᾖ", "ᾗ", "ᾘ", "ᾙ", "ᾚ", "ᾛ", "ᾜ", "ᾝ", "ᾞ", "ᾟ", "ᾠ", "ᾡ", "ᾢ", "ᾣ", "ᾤ",
            "ᾥ", "ᾦ", "ᾧ", "ᾨ", "ᾩ", "ᾪ", "ᾫ", "ᾬ", "ᾭ", "ᾮ", "ᾯ", "ᾰ", "ᾱ", "ᾲ", "ᾳ", "ᾴ",
            "ᾶ", "ᾷ", "Ᾰ", "Ᾱ", "Ὰ", "Ά", "ᾼ", "ι", "ῂ", "ῃ", "ῄ", "ῆ", "ῇ", "Ὲ", "Έ", "Ὴ",
            "Ή", "ῌ", "ῐ", "ῑ", "ῒ", "ΐ", "ῖ", "ῗ", "Ῐ", "Ῑ", "Ὶ", "Ί", "ῠ", "ῡ", "ῢ", "ΰ",
            "ῤ", "ῥ", "ῦ", "ῧ", "Ῠ", "Ῡ", "Ὺ", "Ύ", "Ῥ", "ῲ", "ῳ", "ῴ", "ῶ", "ῷ", "Ὸ", "Ό",
            "Ὼ", "Ώ", "ῼ", "U+2102", "U+2107", "U+210A", "U+210B", "U+210C", "U+210D", "U+210E", "U+210F", "U+2110", "U+2111", "U+2112", "U+2113", "U+2115",
            "U+2119", "U+211A", "U+211B", "U+211C", "U+211D", "U+2124", "U+2126", "U+2128", "U+212A", "U+212B", "U+212C", "U+212D", "U+212F", "U+2130", "U+2131", "U+2132",
            "U+2133", "U+2134", "U+2139", "U+213C", "U+213D", "U+213E", "U+213F", "U+2145", "U+2146", "U+2147", "U+2148", "U+2149", "U+214E", "U+2160", "U+2161", "U+2162",
            "U+2163", "U+2164", "U+2165", "U+2166", "U+2167", "U+2168", "U+2169", "U+216A", "U+216B", "U+216C", "U+216D", "U+216E", "U+216F", "U+2170", "U+2171", "U+2172",
            "U+2173", "U+2174", "U+2175", "U+2176", "U+2177", "U+2178", "U+2179", "U+217A", "U+217B", "U+217C", "U+217D", "U+217E", "U+217F", "Ↄ", "ↄ", "Ⓐ",
            "Ⓑ", "Ⓒ", "Ⓓ", "Ⓔ", "Ⓕ", "Ⓖ", "Ⓗ", "Ⓘ", "Ⓙ", "Ⓚ", "Ⓛ", "Ⓜ", "Ⓝ", "Ⓞ", "Ⓟ", "Ⓠ",
            "Ⓡ", "Ⓢ", "Ⓣ", "Ⓤ", "Ⓥ", "Ⓦ", "Ⓧ", "Ⓨ", "Ⓩ", "ⓐ", "ⓑ", "ⓒ", "ⓓ", "ⓔ", "ⓕ", "ⓖ",
            "ⓗ", "ⓘ", "ⓙ", "ⓚ", "ⓛ", "ⓜ", "ⓝ", "ⓞ", "ⓟ", "ⓠ", "ⓡ", "ⓢ", "ⓣ", "ⓤ", "ⓥ", "ⓦ",
            "ⓧ", "ⓨ", "ⓩ", "U+2C00", "U+2C01", "U+2C02", "U+2C03", "U+2C04", "U+2C05", "U+2C06", "U+2C07", "U+2C08", "U+2C09", "U+2C0A", "U+2C0B", "U+2C0C",
            "U+2C0D", "U+2C0E", "U+2C0F", "U+2C10", "U+2C11", "U+2C12", "U+2C13", "U+2C14", "U+2C15", "U+2C16", "U+2C17", "U+2C18", "U+2C19", "U+2C1A", "U+2C1B", "U+2C1C",
            "U+2C1D", "U+2C1E", "U+2C1F", "U+2C20", "U+2C21", "U+2C22", "U+2C23", "U+2C24", "U+2C25", "U+2C26", "U+2C27", "U+2C28", "U+2C29", "U+2C2A", "U+2C2B", "U+2C2C",
            "U+2C2D", "U+2C2E", "U+2C2F", "U+2C30", "U+2C31", "U+2C32", "U+2C33", "U+2C34", "U+2C35", "U+2C36", "U+2C37", "U+2C38", "U+2C39", "U+2C3A", "U+2C3B", "U+2C3C",
            "U+2C3D", "U+2C3E", "U+2C3F", "U+2C40", "U+2C41", "U+2C42", "U+2C43", "U+2C44", "U+2C45", "U+2C46", "U+2C47", "U+2C48", "U+2C49", "U+2C4A", "U+2C4B", "U+2C4C",
            "U+2C4D", "U+2C4E", "U+2C4F", "U+2C50", "U+2C51", "U+2C52", "U+2C53", "U+2C54", "U+2C55", "U+2C56", "U+2C57", "U+2C58", "U+2C59", "U+2C5A", "U+2C5B", "U+2C5C",
            "U+2C5D", "U+2C5E", "U+2C5F", "U+2C60", "U+2C61", "U+2C62", "U+2C63", "U+2C64", "U+2C65", "U+2C66", "U+2C67", "U+2C68", "U+2C69", "U+2C6A", "U+2C6B", "U+2C6C",
            "U+2C6D", "U+2C6E", "U+2C6F", "U+2C70", "U+2C71", "U+2C72", "U+2C73", "U+2C74", "U+2C75", "U+2C76", "U+2C77", "U+2C78", "U+2C79", "U+2C7A", "U+2C7B", "U+2C7E",
            "U+2C7F", "Ⲁ", "ⲁ", "Ⲃ", "ⲃ", "Ⲅ", "ⲅ", "Ⲇ", "ⲇ", "Ⲉ", "ⲉ", "Ⲋ", "ⲋ", "Ⲍ", "ⲍ", "Ⲏ",
            "ⲏ", "Ⲑ", "ⲑ", "Ⲓ", "ⲓ", "Ⲕ", "ⲕ", "Ⲗ", "ⲗ", "Ⲙ", "ⲙ", "Ⲛ", "ⲛ", "Ⲝ", "ⲝ", "Ⲟ",
            "ⲟ", "Ⲡ", "ⲡ", "Ⲣ", "ⲣ", "Ⲥ", "ⲥ", "Ⲧ", "ⲧ", "Ⲩ", "ⲩ", "Ⲫ", "ⲫ", "Ⲭ", "ⲭ", "Ⲯ",
            "ⲯ", "Ⲱ", "ⲱ", "Ⲳ", "ⲳ", "Ⲵ", "ⲵ", "Ⲷ", "ⲷ", "Ⲹ", "ⲹ", "Ⲻ", "ⲻ", "Ⲽ", "ⲽ", "Ⲿ",
            "ⲿ", "Ⳁ", "ⳁ", "Ⳃ", "ⳃ", "Ⳅ", "ⳅ", "Ⳇ", "ⳇ", "Ⳉ", "ⳉ", "Ⳋ", "ⳋ", "Ⳍ", "ⳍ", "Ⳏ",
            "ⳏ", "Ⳑ", "ⳑ", "Ⳓ", "ⳓ", "Ⳕ", "ⳕ", "Ⳗ", "ⳗ", "Ⳙ", "ⳙ", "Ⳛ", "ⳛ", "Ⳝ", "ⳝ", "Ⳟ",
            "ⳟ", "Ⳡ", "ⳡ", "Ⳣ", "ⳣ", "ⳤ", "Ⳬ", "ⳬ", "Ⳮ", "ⳮ", "Ⳳ", "ⳳ", "U+2D00", "U+2D01", "U+2D02", "U+2D03",
            "U+2D04", "U+2D05", "U+2D06", "U+2D07", "U+2D08", "U+2D09", "U+2D0A", "U+2D0B", "U+2D0C", "U+2D0D", "U+2D0E", "U+2D0F", "U+2D10", "U+2D11", "U+2D12", "U+2D13",
            "U+2D14", "U+2D15", "U+2D16", "U+2D17", "U+2D18", "U+2D19", "U+2D1A", "U+2D1B", "U+2D1C", "U+2D1D", "U+2D1E", "U+2D1F", "U+2D20", "U+2D21", "U+2D22", "U+2D23",
            "U+2D24", "U+2D25", "U+2D27", "U+2D2D", "U+A640", "U+A641", "U+A642", "U+A643", "U+A644", "U+A645", "U+A646", "U+A647", "U+A648", "U+A649", "U+A64A", "U+A64B",
            "U+A64C", "U+A64D", "U+A64E", "U+A64F", "U+A650", "U+A651", "U+A652", "U+A653", "U+A654", "U+A655", "U+A656", "U+A657", "U+A658", "U+A659", "U+A65A", "U+A65B",
            "U+A65C", "U+A65D", "U+A65E", "U+A65F", "U+A660", "U+A661", "U+A662", "U+A663", "U+A664", "U+A665", "U+A666", "U+A667", "U+A668", "U+A669", "U+A66A", "U+A66B",
            "U+A66C", "U+A66D", "Ꚁ", "ꚁ", "Ꚃ", "ꚃ", "Ꚅ", "ꚅ", "Ꚇ", "ꚇ", "Ꚉ", "ꚉ", "Ꚋ", "ꚋ", "Ꚍ", "ꚍ",
            "Ꚏ", "ꚏ", "Ꚑ", "ꚑ", "Ꚓ", "ꚓ", "Ꚕ", "ꚕ", "Ꚗ", "ꚗ", "Ꚙ", "ꚙ", "Ꚛ", "ꚛ", "U+A722", "U+A723",
            "U+A724", "U+A725", "U+A726", "U+A727", "U+A728", "U+A729", "U+A72A", "U+A72B", "U+A72C", "U+A72D", "U+A72E", "U+A72F", "U+A730", "U+A731", "U+A732", "U+A733",
            "U+A734", "U+A735", "U+A736", "U+A737", "U+A738", "U+A739", "U+A73A", "U+A73B", "U+A73C", "U+A73D", "U+A73E", "U+A73F", "U+A740", "U+A741", "U+A742", "U+A743",
            "U+A744", "U+A745", "U+A746", "U+A747", "U+A748", "U+A749", "U+A74A", "U+A74B", "U+A74C", "U+A74D", "U+A74E", "U+A74F", "U+A750", "U+A751", "U+A752", "U+A753",
            "U+A754", "U+A755", "U+A756", "U+A757", "U+A758", "U+A759", "U+A75A", "U+A75B", "U+A75C", "U+A75D", "U+A75E", "U+A75F", "U+A760", "U+A761", "U+A762", "U+A763",
            "U+A764", "U+A765", "U+A766", "U+A767", "U+A768", "U+A769", "U+A76A", "U+A76B", "U+A76C", "U+A76D", "U+A76E", "U+A76F", "U+A771", "U+A772", "U+A773", "U+A774",
            "U+A775", "U+A776", "U+A777", "U+A778", "U+A779", "U+A77A", "U+A77B", "U+A77C", "U+A77D", "U+A77E", "U+A77F", "Ꞁ", "ꞁ", "Ꞃ", "ꞃ", "Ꞅ",
            "ꞅ", "Ꞇ", "ꞇ", "Ꞌ", "ꞌ", "Ɥ", "ꞎ", "Ꞑ", "ꞑ", "Ꞓ", "ꞓ", "ꞔ", "ꞕ", "Ꞗ", "ꞗ", "Ꞙ",
            "ꞙ", "Ꞛ", "ꞛ", "Ꞝ", "ꞝ", "Ꞟ", "ꞟ", "Ꞡ", "ꞡ", "Ꞣ", "ꞣ", "Ꞥ", "ꞥ", "Ꞧ", "ꞧ", "Ꞩ",
            "ꞩ", "Ɦ", "Ɜ", "Ɡ", "Ɬ", "Ɪ", "ꞯ", "Ʞ", "Ʇ", "Ʝ", "Ꭓ", "Ꞵ", "ꞵ", "Ꞷ", "ꞷ", "Ꞹ",
            "ꞹ", "Ꞻ", "ꞻ", "Ꞽ", "ꞽ", "Ꞿ", "ꞿ", "Ꟁ", "ꟁ", "Ꟃ", "ꟃ", "Ꞔ", "Ʂ", "Ᶎ", "Ꟈ", "ꟈ",
            "Ꟊ", "ꟊ", "Ꟑ", "ꟑ", "ꟓ", "ꟕ", "Ꟗ", "ꟗ", "Ꟙ", "ꟙ", "Ꟶ", "ꟶ", "ꟺ", "U+AB30", "U+AB31", "U+AB32",
            "U+AB33", "U+AB34", "U+AB35", "U+AB36", "U+AB37", "U+AB38", "U+AB39", "U+AB3A", "U+AB3B", "U+AB3C", "U+AB3D", "U+AB3E", "U+AB3F", "U+AB40", "U+AB41", "U+AB42",
            "U+AB43", "U+AB44", "U+AB45", "U+AB46", "U+AB47", "U+AB48", "U+AB49", "U+AB4A", "U+AB4B", "U+AB4C", "U+AB4D", "U+AB4E", "U+AB4F", "U+AB50", "U+AB51", "U+AB52",
            "U+AB53", "U+AB54", "U+AB55", "U+AB56", "U+AB57", "U+AB58", "U+AB59", "U+AB5A", "U+AB60", "U+AB61", "U+AB62", "U+AB63", "U+AB64", "U+AB65", "U+AB66", "U+AB67",
            "U+AB68", "U+AB70", "U+AB71", "U+AB72", "U+AB73", "U+AB74", "U+AB75", "U+AB76", "U+AB77", "U+AB78", "U+AB79", "U+AB7A", "U+AB7B", "U+AB7C", "U+AB7D", "U+AB7E",
            "U+AB7F", "ꮀ", "ꮁ", "ꮂ", "ꮃ", "ꮄ", "ꮅ", "ꮆ", "ꮇ", "ꮈ", "ꮉ", "ꮊ", "ꮋ", "ꮌ", "ꮍ", "ꮎ",
            "ꮏ", "ꮐ", "ꮑ", "ꮒ", "ꮓ", "ꮔ", "ꮕ", "ꮖ", "ꮗ", "ꮘ", "ꮙ", "ꮚ", "ꮛ", "ꮜ", "ꮝ", "ꮞ",
            "ꮟ", "ꮠ", "ꮡ", "ꮢ", "ꮣ", "ꮤ", "ꮥ", "ꮦ", "ꮧ", "ꮨ", "ꮩ", "ꮪ", "ꮫ", "ꮬ", "ꮭ", "ꮮ",
            "ꮯ", "ꮰ", "ꮱ", "ꮲ", "ꮳ", "ꮴ", "ꮵ", "ꮶ", "ꮷ", "ꮸ", "ꮹ", "ꮺ", "ꮻ", "ꮼ", "ꮽ", "ꮾ",
            "ꮿ", "U+FB00", "U+FB01", "U+FB02", "U+FB03", "U+FB04", "U+FB05", "U+FB06", "U+FB13", "U+FB14", "U+FB15", "U+FB16", "U+FB17", "U+FF21", "U+FF22", "U+FF23",
            "U+FF24", "U+FF25", "U+FF26", "U+FF27", "U+FF28", "U+FF29", "U+FF2A", "U+FF2B", "U+FF2C", "U+FF2D", "U+FF2E", "U+FF2F", "U+FF30", "U+FF31", "U+FF32", "U+FF33",
            "U+FF34", "U+FF35", "U+FF36", "U+FF37", "U+FF38", "U+FF39", "U+FF3A", "U+FF41", "U+FF42", "U+FF43", "U+FF44", "U+FF45", "U+FF46", "U+FF47", "U+FF48", "U+FF49",
            "U+FF4A", "U+FF4B", "U+FF4C", "U+FF4D", "U+FF4E", "U+FF4F", "U+FF50", "U+FF51", "U+FF52", "U+FF53", "U+FF54", "U+FF55", "U+FF56", "U+FF57", "U+FF58", "U+FF59",
            "U+FF5A", "U+10400", "U+10401", "U+10402", "U+10403", "U+10404", "U+10405", "U+10406", "U+10407", "U+10408", "U+10409", "U+1040A", "U+1040B", "U+1040C", "U+1040D", "U+1040E",
            "U+1040F", "U+10410", "U+10411", "U+10412", "U+10413", "U+10414", "U+10415", "U+10416", "U+10417", "U+10418", "U+10419", "U+1041A", "U+1041B", "U+1041C", "U+1041D", "U+1041E",
            "U+1041F", "U+10420", "U+10421", "U+10422", "U+10423", "U+10424", "U+10425", "U+10426", "U+10427", "U+10428", "U+10429", "U+1042A", "U+1042B", "U+1042C", "U+1042D", "U+1042E",
            "U+1042F", "U+10430", "U+10431", "U+10432", "U+10433", "U+10434", "U+10435", "U+10436", "U+10437", "U+10438", "U+10439", "U+1043A", "U+1043B", "U+1043C", "U+1043D", "U+1043E",
            "U+1043F", "U+10440", "U+10441", "U+10442", "U+10443", "U+10444", "U+10445", "U+10446", "U+10447", "U+10448", "U+10449", "U+1044A", "U+1044B", "U+1044C", "U+1044D", "U+1044E",
            "U+1044F", "U+104B0", "U+104B1", "U+104B2", "U+104B3", "U+104B4", "U+104B5", "U+104B6", "U+104B7", "U+104B8", "U+104B9", "U+104BA", "U+104BB", "U+104BC", "U+104BD", "U+104BE",
            "U+104BF", "U+104C0", "U+104C1", "U+104C2", "U+104C3", "U+104C4", "U+104C5", "U+104C6", "U+104C7", "U+104C8", "U+104C9", "U+104CA", "U+104CB", "U+104CC", "U+104CD", "U+104CE",
            "U+104CF", "U+104D0", "U+104D1", "U+104D2", "U+104D3", "U+104D8", "U+104D9", "U+104DA", "U+104DB", "U+104DC", "U+104DD", "U+104DE", "U+104DF", "U+104E0", "U+104E1", "U+104E2",
            "U+104E3", "U+104E4", "U+104E5", "U+104E6", "U+104E7", "U+104E8", "U+104E9", "U+104EA", "U+104EB", "U+104EC", "U+104ED", "U+104EE", "U+104EF", "U+104F0", "U+104F1", "U+104F2",
            "U+104F3", "U+104F4", "U+104F5", "U+104F6", "U+104F7", "U+104F8", "U+104F9", "U+104FA", "U+104FB", "U+10570", "U+10571", "U+10572", "U+10573", "U+10574", "U+10575", "U+10576",
            "U+10577", "U+10578", "U+10579", "U+1057A", "U+1057C", "U+1057D", "U+1057E", "U+1057F", "U+10580", "U+10581", "U+10582", "U+10583", "U+10584", "U+10585", "U+10586", "U+10587",
            "U+10588", "U+10589", "U+1058A", "U+1058C", "U+1058D", "U+1058E", "U+1058F", "U+10590", "U+10591", "U+10592", "U+10594", "U+10595", "U+10597", "U+10598", "U+10599", "U+1059A",
            "U+1059B", "U+1059C", "U+1059D", "U+1059E", "U+1059F", "U+105A0", "U+105A1", "U+105A3", "U+105A4", "U+105A5", "U+105A6", "U+105A7", "U+105A8", "U+105A9", "U+105AA", "U+105AB",
            "U+105AC", "U+105AD", "U+105AE", "U+105AF", "U+105B0", "U+105B1", "U+105B3", "U+105B4", "U+105B5", "U+105B6", "U+105B7", "U+105B8", "U+105B9", "U+105BB", "U+105BC", "U+10C80",
            "U+10C81", "U+10C82", "U+10C83", "U+10C84", "U+10C85", "U+10C86", "U+10C87", "U+10C88", "U+10C89", "U+10C8A", "U+10C8B", "U+10C8C", "U+10C8D", "U+10C8E", "U+10C8F", "U+10C90",
            "U+10C91", "U+10C92", "U+10C93", "U+10C94", "U+10C95", "U+10C96", "U+10C97", "U+10C98", "U+10C99", "U+10C9A", "U+10C9B", "U+10C9C", "U+10C9D", "U+10C9E", "U+10C9F", "U+10CA0",
            "U+10CA1", "U+10CA2", "U+10CA3", "U+10CA4", "U+10CA5", "U+10CA6", "U+10CA7", "U+10CA8", "U+10CA9", "U+10CAA", "U+10CAB", "U+10CAC", "U+10CAD", "U+10CAE", "U+10CAF", "U+10CB0",
            "U+10CB1", "U+10CB2", "U+10CC0", "U+10CC1", "U+10CC2", "U+10CC3", "U+10CC4", "U+10CC5", "U+10CC6", "U+10CC7", "U+10CC8", "U+10CC9", "U+10CCA", "U+10CCB", "U+10CCC", "U+10CCD",
            "U+10CCE", "U+10CCF", "U+10CD0", "U+10CD1", "U+10CD2", "U+10CD3", "U+10CD4", "U+10CD5", "U+10CD6", "U+10CD7", "U+10CD8", "U+10CD9", "U+10CDA", "U+10CDB", "U+10CDC", "U+10CDD",
            "U+10CDE", "U+10CDF", "U+10CE0", "U+10CE1", "U+10CE2", "U+10CE3", "U+10CE4", "U+10CE5", "U+10CE6", "U+10CE7", "U+10CE8", "U+10CE9", "U+10CEA", "U+10CEB", "U+10CEC", "U+10CED",
            "U+10CEE", "U+10CEF", "U+10CF0", "U+10CF1", "U+10CF2", "U+118A0", "U+118A1", "U+118A2", "U+118A3", "U+118A4", "U+118A5", "U+118A6", "U+118A7", "U+118A8", "U+118A9", "U+118AA",
            "U+118AB", "U+118AC", "U+118AD", "U+118AE", "U+118AF", "U+118B0", "U+118B1", "U+118B2", "U+118B3", "U+118B4", "U+118B5", "U+118B6", "U+118B7", "U+118B8", "U+118B9", "U+118BA",
            "U+118BB", "U+118BC", "U+118BD", "U+118BE", "U+118BF", "U+118C0", "U+118C1", "U+118C2", "U+118C3", "U+118C4", "U+118C5", "U+118C6", "U+118C7", "U+118C8", "U+118C9", "U+118CA",
            "U+118CB", "U+118CC", "U+118CD", "U+118CE", "U+118CF", "U+118D0", "U+118D1", "U+118D2", "U+118D3", "U+118D4", "U+118D5", "U+118D6", "U+118D7", "U+118D8", "U+118D9", "U+118DA",
            "U+118DB", "U+118DC", "U+118DD", "U+118DE", "U+118DF", "U+16E40", "U+16E41", "U+16E42", "U+16E43", "U+16E44", "U+16E45", "U+16E46", "U+16E47", "U+16E48", "U+16E49", "U+16E4A",
            "U+16E4B", "U+16E4C", "U+16E4D", "U+16E4E", "U+16E4F", "U+16E50", "U+16E51", "U+16E52", "U+16E53", "U+16E54", "U+16E55", "U+16E56", "U+16E57", "U+16E58", "U+16E59", "U+16E5A",
            "U+16E5B", "U+16E5C", "U+16E5D", "U+16E5E", "U+16E5F", "U+16E60", "U+16E61", "U+16E62", "U+16E63", "U+16E64", "U+16E65", "U+16E66", "U+16E67", "U+16E68", "U+16E69", "U+16E6A",
            "U+16E6B", "U+16E6C", "U+16E6D", "U+16E6E", "U+16E6F", "U+16E70", "U+16E71", "U+16E72", "U+16E73", "U+16E74", "U+16E75", "U+16E76", "U+16E77", "U+16E78", "U+16E79", "U+16E7A",
            "U+16E7B", "U+16E7C", "U+16E7D", "U+16E7E", "U+16E7F", "U+1D400", "U+1D401", "U+1D402", "U+1D403", "U+1D404", "U+1D405", "U+1D406", "U+1D407", "U+1D408", "U+1D409", "U+1D40A",
            "U+1D40B", "U+1D40C", "U+1D40D", "U+1D40E", "U+1D40F", "U+1D410", "U+1D411", "U+1D412", "U+1D413", "U+1D414", "U+1D415", "U+1D416", "U+1D417", "U+1D418", "U+1D419", "U+1D41A",
            "U+1D41B", "U+1D41C", "U+1D41D", "U+1D41E", "U+1D41F", "U+1D420", "U+1D421", "U+1D422", "U+1D423", "U+1D424", "U+1D425", "U+1D426", "U+1D427", "U+1D428", "U+1D429", "U+1D42A",
            "U+1D42B", "U+1D42C", "U+1D42D", "U+1D42E", "U+1D42F", "U+1D430", "U+1D431", "U+1D432", "U+1D433", "U+1D434", "U+1D435", "U+1D436", "U+1D437", "U+1D438", "U+1D439", "U+1D43A",
            "U+1D43B", "U+1D43C", "U+1D43D", "U+1D43E", "U+1D43F", "U+1D440", "U+1D441", "U+1D442", "U+1D443", "U+1D444", "U+1D445", "U+1D446", "U+1D447", "U+1D448", "U+1D449", "U+1D44A",
            "U+1D44B", "U+1D44C", "U+1D44D", "U+1D44E", "U+1D44F", "U+1D450", "U+1D451", "U+1D452", "U+1D453", "U+1D454", "U+1D456", "U+1D457", "U+1D458", "U+1D459", "U+1D45A", "U+1D45B",
            "U+1D45C", "U+1D45D", "U+1D45E", "U+1D45F", "U+1D460", "U+1D461", "U+1D462", "U+1D463", "U+1D464", "U+1D465", "U+1D466", "U+1D467", "U+1D468", "U+1D469", "U+1D46A", "U+1D46B",
            "U+1D46C", "U+1D46D", "U+1D46E", "U+1D46F", "U+1D470", "U+1D471", "U+1D472", "U+1D473", "U+1D474", "U+1D475", "U+1D476", "U+1D477", "U+1D478", "U+1D479", "U+1D47A", "U+1D47B",
            "U+1D47C", "U+1D47D", "U+1D47E", "U+1D47F", "U+1D480", "U+1D481", "U+1D482", "U+1D483", "U+1D484", "U+1D485", "U+1D486", "U+1D487", "U+1D488", "U+1D489", "U+1D48A", "U+1D48B",
            "U+1D48C", "U+1D48D", "U+1D48E", "U+1D48F", "U+1D490", "U+1D491", "U+1D492", "U+1D493", "U+1D494", "U+1D495", "U+1D496", "U+1D497", "U+1D498", "U+1D499", "U+1D49A", "U+1D49B",
            "U+1D49C", "U+1D49E", "U+1D49F", "U+1D4A2", "U+1D4A5", "U+1D4A6", "U+1D4A9", "U+1D4AA", "U+1D4AB", "U+1D4AC", "U+1D4AE", "U+1D4AF", "U+1D4B0", "U+1D4B1", "U+1D4B2", "U+1D4B3",
            "U+1D4B4", "U+1D4B5", "U+1D4B6", "U+1D4B7", "U+1D4B8", "U+1D4B9", "U+1D4BB", "U+1D4BD", "U+1D4BE", "U+1D4BF", "U+1D4C0", "U+1D4C1", "U+1D4C2", "U+1D4C3", "U+1D4C5", "U+1D4C6",
            "U+1D4C7", "U+1D4C8", "U+1D4C9", "U+1D4CA", "U+1D4CB", "U+1D4CC", "U+1D4CD", "U+1D4CE", "U+1D4CF", "U+1D4D0", "U+1D4D1", "U+1D4D2", "U+1D4D3", "U+1D4D4", "U+1D4D5", "U+1D4D6",
            "U+1D4D7", "U+1D4D8", "U+1D4D9", "U+1D4DA", "U+1D4DB", "U+1D4DC", "U+1D4DD", "U+1D4DE", "U+1D4DF", "U+1D4E0", "U+1D4E1", "U+1D4E2", "U+1D4E3", "U+1D4E4", "U+1D4E5", "U+1D4E6",
            "U+1D4E7", "U+1D4E8", "U+1D4E9", "U+1D4EA", "U+1D4EB", "U+1D4EC", "U+1D4ED", "U+1D4EE", "U+1D4EF", "U+1D4F0", "U+1D4F1", "U+1D4F2", "U+1D4F3", "U+1D4F4", "U+1D4F5", "U+1D4F6",
            "U+1D4F7", "U+1D4F8", "U+1D4F9", "U+1D4FA", "U+1D4FB", "U+1D4FC", "U+1D4FD", "U+1D4FE", "U+1D4FF", "U+1D500", "U+1D501", "U+1D502", "U+1D503", "U+1D504", "U+1D505", "U+1D507",
            "U+1D508", "U+1D509", "U+1D50A", "U+1D50D", "U+1D50E", "U+1D50F", "U+1D510", "U+1D511", "U+1D512", "U+1D513", "U+1D514", "U+1D516", "U+1D517", "U+1D518", "U+1D519", "U+1D51A",
            "U+1D51B", "U+1D51C", "U+1D51E", "U+1D51F", "U+1D520", "U+1D521", "U+1D522", "U+1D523", "U+1D524", "U+1D525", "U+1D526", "U+1D527", "U+1D528", "U+1D529", "U+1D52A", "U+1D52B",
            "U+1D52C", "U+1D52D", "U+1D52E", "U+1D52F", "U+1D530", "U+1D531", "U+1D532", "U+1D533", "U+1D534", "U+1D535", "U+1D536", "U+1D537", "U+1D538", "U+1D539", "U+1D53B", "U+1D53C",
            "U+1D53D", "U+1D53E", "U+1D540", "U+1D541", "U+1D542", "U+1D543", "U+1D544", "U+1D546", "U+1D54A", "U+1D54B", "U+1D54C", "U+1D54D", "U+1D54E", "U+1D54F", "U+1D550", "U+1D552",
            "U+1D553", "U+1D554", "U+1D555", "U+1D556", "U+1D557", "U+1D558", "U+1D559", "U+1D55A", "U+1D55B", "U+1D55C", "U+1D55D", "U+1D55E", "U+1D55F", "U+1D560", "U+1D561", "U+1D562",
            "U+1D563", "U+1D564", "U+1D565", "U+1D566", "U+1D567", "U+1D568", "U+1D569", "U+1D56A", "U+1D56B", "U+1D56C", "U+1D56D", "U+1D56E", "U+1D56F", "U+1D570", "U+1D571", "U+1D572",
            "U+1D573", "U+1D574", "U+1D575", "U+1D576", "U+1D577", "U+1D578", "U+1D579", "U+1D57A", "U+1D57B", "U+1D57C", "U+1D57D", "U+1D57E", "U+1D57F", "U+1D580", "U+1D581", "U+1D582",
            "U+1D583", "U+1D584", "U+1D585", "U+1D586", "U+1D587", "U+1D588", "U+1D589", "U+1D58A", "U+1D58B", "U+1D58C", "U+1D58D", "U+1D58E", "U+1D58F", "U+1D590", "U+1D591", "U+1D592",
            "U+1D593", "U+1D594", "U+1D595", "U+1D596", "U+1D597", "U+1D598", "U+1D599", "U+1D59A", "U+1D59B", "U+1D59C", "U+1D59D", "U+1D59E", "U+1D59F", "U+1D5A0", "U+1D5A1", "U+1D5A2",
            "U+1D5A3", "U+1D5A4", "U+1D5A5", "U+1D5A6", "U+1D5A7", "U+1D5A8", "U+1D5A9", "U+1D5AA", "U+1D5AB", "U+1D5AC", "U+1D5AD", "U+1D5AE", "U+1D5AF", "U+1D5B0", "U+1D5B1", "U+1D5B2",
            "U+1D5B3", "U+1D5B4", "U+1D5B5", "U+1D5B6", "U+1D5B7", "U+1D5B8", "U+1D5B9", "U+1D5BA", "U+1D5BB", "U+1D5BC", "U+1D5BD", "U+1D5BE", "U+1D5BF", "U+1D5C0", "U+1D5C1", "U+1D5C2",
            "U+1D5C3", "U+1D5C4", "U+1D5C5", "U+1D5C6", "U+1D5C7", "U+1D5C8", "U+1D5C9", "U+1D5CA", "U+1D5CB", "U+1D5CC", "U+1D5CD", "U+1D5CE", "U+1D5CF", "U+1D5D0", "U+1D5D1", "U+1D5D2",
            "U+1D5D3", "U+1D5D4", "U+1D5D5", "U+1D5D6", "U+1D5D7", "U+1D5D8", "U+1D5D9", "U+1D5DA", "U+1D5DB", "U+1D5DC", "U+1D5DD", "U+1D5DE", "U+1D5DF", "U+1D5E0", "U+1D5E1", "U+1D5E2",
            "U+1D5E3", "U+1D5E4", "U+1D5E5", "U+1D5E6", "U+1D5E7", "U+1D5E8", "U+1D5E9", "U+1D5EA", "U+1D5EB", "U+1D5EC", "U+1D5ED", "U+1D5EE", "U+1D5EF", "U+1D5F0", "U+1D5F1", "U+1D5F2",
            "U+1D5F3", "U+1D5F4", "U+1D5F5", "U+1D5F6", "U+1D5F7", "U+1D5F8", "U+1D5F9", "U+1D5FA", "U+1D5FB", "U+1D5FC", "U+1D5FD", "U+1D5FE", "U+1D5FF", "U+1D600", "U+1D601", "U+1D602",
            "U+1D603", "U+1D604", "U+1D605", "U+1D606", "U+1D607", "U+1D608", "U+1D609", "U+1D60A", "U+1D60B", "U+1D60C", "U+1D60D", "U+1D60E", "U+1D60F", "U+1D610", "U+1D611", "U+1D612",
            "U+1D613", "U+1D614", "U+1D615", "U+1D616", "U+1D617", "U+1D618", "U+1D619", "U+1D61A", "U+1D61B", "U+1D61C", "U+1D61D", "U+1D61E", "U+1D61F", "U+1D620", "U+1D621", "U+1D622",
            "U+1D623", "U+1D624", "U+1D625", "U+1D626", "U+1D627", "U+1D628", "U+1D629", "U+1D62A", "U+1D62B", "U+1D62C", "U+1D62D", "U+1D62E", "U+1D62F", "U+1D630", "U+1D631", "U+1D632",
            "U+1D633", "U+1D634", "U+1D635", "U+1D636", "U+1D637", "U+1D638", "U+1D639", "U+1D63A", "U+1D63B", "U+1D63C", "U+1D63D", "U+1D63E", "U+1D63F", "U+1D640", "U+1D641", "U+1D642",
            "U+1D643", "U+1D644", "U+1D645", "U+1D646", "U+1D647", "U+1D648", "U+1D649", "U+1D64A", "U+1D64B", "U+1D64C", "U+1D64D", "U+1D64E", "U+1D64F", "U+1D650", "U+1D651", "U+1D652",
            "U+1D653", "U+1D654", "U+1D655", "U+1D656", "U+1D657", "U+1D658", "U+1D659", "U+1D65A", "U+1D65B", "U+1D65C", "U+1D65D", "U+1D65E", "U+1D65F", "U+1D660", "U+1D661", "U+1D662",
            "U+1D663", "U+1D664", "U+1D665", "U+1D666", "U+1D667", "U+1D668", "U+1D669", "U+1D66A", "U+1D66B", "U+1D66C", "U+1D66D", "U+1D66E", "U+1D66F", "U+1D670", "U+1D671", "U+1D672",
            "U+1D673", "U+1D674", "U+1D675", "U+1D676", "U+1D677", "U+1D678", "U+1D679", "U+1D67A", "U+1D67B", "U+1D67C", "U+1D67D", "U+1D67E", "U+1D67F", "U+1D680", "U+1D681", "U+1D682",
            "U+1D683", "U+1D684", "U+1D685", "U+1D686", "U+1D687", "U+1D688", "U+1D689", "U+1D68A", "U+1D68B", "U+1D68C", "U+1D68D", "U+1D68E", "U+1D68F", "U+1D690", "U+1D691", "U+1D692",
            "U+1D693", "U+1D694", "U+1D695", "U+1D696", "U+1D697", "U+1D698", "U+1D699", "U+1D69A", "U+1D69B", "U+1D69C", "U+1D69D", "U+1D69E", "U+1D69F", "U+1D6A0", "U+1D6A1", "U+1D6A2",
            "U+1D6A3", "U+1D6A4", "U+1D6A5", "U+1D6A8", "U+1D6A9", "U+1D6AA", "U+1D6AB", "U+1D6AC", "U+1D6AD", "U+1D6AE", "U+1D6AF", "U+1D6B0", "U+1D6B1", "U+1D6B2", "U+1D6B3", "U+1D6B4",
            "U+1D6B5", "U+1D6B6", "U+1D6B7", "U+1D6B8", "U+1D6B9", "U+1D6BA", "U+1D6BB", "U+1D6BC", "U+1D6BD", "U+1D6BE", "U+1D6BF", "U+1D6C0", "U+1D6C2", "U+1D6C3", "U+1D6C4", "U+1D6C5",
            "U+1D6C6", "U+1D6C7", "U+1D6C8", "U+1D6C9", "U+1D6CA", "U+1D6CB", "U+1D6CC", "U+1D6CD", "U+1D6CE", "U+1D6CF", "U+1D6D0", "U+1D6D1", "U+1D6D2", "U+1D6D3", "U+1D6D4", "U+1D6D5",
            "U+1D6D6", "U+1D6D7", "U+1D6D8", "U+1D6D9", "U+1D6DA", "U+1D6DC", "U+1D6DD", "U+1D6DE", "U+1D6DF", "U+1D6E0", "U+1D6E1", "U+1D6E2", "U+1D6E3", "U+1D6E4", "U+1D6E5", "U+1D6E6",
            "U+1D6E7", "U+1D6E8", "U+1D6E9", "U+1D6EA", "U+1D6EB", "U+1D6EC", "U+1D6ED", "U+1D6EE", "U+1D6EF", "U+1D6F0", "U+1D6F1", "U+1D6F2", "U+1D6F3", "U+1D6F4", "U+1D6F5", "U+1D6F6",
            "U+1D6F7", "U+1D6F8", "U+1D6F9", "U+1D6FA", "U+1D6FC", "U+1D6FD", "U+1D6FE", "U+1D6FF", "U+1D700", "U+1D701", "U+1D702", "U+1D703", "U+1D704", "U+1D705", "U+1D706", "U+1D707",
            "U+1D708", "U+1D709", "U+1D70A", "U+1D70B", "U+1D70C", "U+1D70D", "U+1D70E", "U+1D70F", "U+1D710", "U+1D711", "U+1D712", "U+1D713", "U+1D714", "U+1D716", "U+1D717", "U+1D718",
            "U+1D719", "U+1D71A", "U+1D71B", "U+1D71C", "U+1D71D", "U+1D71E", "U+1D71F", "U+1D720", "U+1D721", "U+1D722", "U+1D723", "U+1D724", "U+1D725", "U+1D726", "U+1D727", "U+1D728",
            "U+1D729", "U+1D72A", "U+1D72B", "U+1D72C", "U+1D72D", "U+1D72E", "U+1D72F", "U+1D730", "U+1D731", "U+1D732", "U+1D733", "U+1D734", "U+1D736", "U+1D737", "U+1D738", "U+1D739",
            "U+1D73A", "U+1D73B", "U+1D73C", "U+1D73D", "U+1D73E", "U+1D73F", "U+1D740", "U+1D741", "U+1D742", "U+1D743", "U+1D744", "U+1D745", "U+1D746", "U+1D747", "U+1D748", "U+1D749",
            "U+1D74A", "U+1D74B", "U+1D74C", "U+1D74D", "U+1D74E", "U+1D750", "U+1D751", "U+1D752", "U+1D753", "U+1D754", "U+1D755", "U+1D756", "U+1D757", "U+1D758", "U+1D759", "U+1D75A",
            "U+1D75B", "U+1D75C", "U+1D75D", "U+1D75E", "U+1D75F", "U+1D760", "U+1D761", "U+1D762", "U+1D763", "U+1D764", "U+1D765", "U+1D766", "U+1D767", "U+1D768", "U+1D769", "U+1D76A",
            "U+1D76B", "U+1D76C", "U+1D76D", "U+1D76E", "U+1D770", "U+1D771", "U+1D772", "U+1D773", "U+1D774", "U+1D775", "U+1D776", "U+1D777", "U+1D778", "U+1D779", "U+1D77A", "U+1D77B",
            "U+1D77C", "U+1D77D", "U+1D77E", "U+1D77F", "U+1D780", "U+1D781", "U+1D782", "U+1D783", "U+1D784", "U+1D785", "U+1D786", "U+1D787", "U+1D788", "U+1D78A", "U+1D78B", "U+1D78C",
            "U+1D78D", "U+1D78E", "U+1D78F", "U+1D790", "U+1D791", "U+1D792", "U+1D793", "U+1D794", "U+1D795", "U+1D796", "U+1D797", "U+1D798", "U+1D799", "U+1D79A", "U+1D79B", "U+1D79C",
            "U+1D79D", "U+1D79E", "U+1D79F", "U+1D7A0", "U+1D7A1", "U+1D7A2", "U+1D7A3", "U+1D7A4", "U+1D7A5", "U+1D7A6", "U+1D7A7", "U+1D7A8", "U+1D7AA", "U+1D7AB", "U+1D7AC", "U+1D7AD",
            "U+1D7AE", "U+1D7AF", "U+1D7B0", "U+1D7B1", "U+1D7B2", "U+1D7B3", "U+1D7B4", "U+1D7B5", "U+1D7B6", "U+1D7B7", "U+1D7B8", "U+1D7B9", "U+1D7BA", "U+1D7BB", "U+1D7BC", "U+1D7BD",
            "U+1D7BE", "U+1D7BF", "U+1D7C0", "U+1D7C1", "U+1D7C2", "U+1D7C4", "U+1D7C5", "U+1D7C6", "U+1D7C7", "U+1D7C8", "U+1D7C9", "U+1D7CA", "U+1D7CB", "U+1DF00", "U+1DF01", "U+1DF02",
            "U+1DF03", "U+1DF04", "U+1DF05", "U+1DF06", "U+1DF07", "U+1DF08", "U+1DF09", "U+1DF0B", "U+1DF0C", "U+1DF0D", "U+1DF0E", "U+1DF0F", "U+1DF10", "U+1DF11", "U+1DF12", "U+1DF13",
            "U+1DF14", "U+1DF15", "U+1DF16", "U+1DF17", "U+1DF18", "U+1DF19", "U+1DF1A", "U+1DF1B", "U+1DF1C", "U+1DF1D", "U+1DF1E", "U+1E900", "U+1E901", "U+1E902", "U+1E903", "U+1E904",
            "U+1E905", "U+1E906", "U+1E907", "U+1E908", "U+1E909", "U+1E90A", "U+1E90B", "U+1E90C", "U+1E90D", "U+1E90E", "U+1E90F", "U+1E910", "U+1E911", "U+1E912", "U+1E913", "U+1E914",
            "U+1E915", "U+1E916", "U+1E917", "U+1E918", "U+1E919", "U+1E91A", "U+1E91B", "U+1E91C", "U+1E91D", "U+1E91E", "U+1E91F", "U+1E920", "U+1E921", "U+1E922", "U+1E923", "U+1E924",
            "U+1E925", "U+1E926", "U+1E927", "U+1E928", "U+1E929", "U+1E92A", "U+1E92B", "U+1E92C", "U+1E92D", "U+1E92E", "U+1E92F", "U+1E930", "U+1E931", "U+1E932", "U+1E933", "U+1E934",
            "U+1E935", "U+1E936", "U+1E937", "U+1E938", "U+1E939", "U+1E93A", "U+1E93B", "U+1E93C", "U+1E93D", "U+1E93E", "U+1E93F", "U+1E940", "U+1E941", "U+1E942", "U+1E943", "U+1F130",
            "U+1F131", "U+1F132", "U+1F133", "U+1F134", "U+1F135", "U+1F136", "U+1F137", "U+1F138", "U+1F139", "U+1F13A", "U+1F13B", "U+1F13C", "U+1F13D", "U+1F13E", "U+1F13F", "U+1F140",
            "U+1F141", "U+1F142", "U+1F143", "U+1F144", "U+1F145", "U+1F146", "U+1F147", "U+1F148", "U+1F149", "U+1F150", "U+1F151", "U+1F152", "U+1F153", "U+1F154", "U+1F155", "U+1F156",
            "U+1F157", "U+1F158", "U+1F159", "U+1F15A", "U+1F15B", "U+1F15C", "U+1F15D", "U+1F15E", "U+1F15F", "U+1F160", "U+1F161", "U+1F162", "U+1F163", "U+1F164", "U+1F165", "U+1F166",
            "U+1F167", "U+1F168", "U+1F169", "U+1F170", "U+1F171", "U+1F172", "U+1F173", "U+1F174", "U+1F175", "U+1F176", "U+1F177", "U+1F178", "U+1F179", "U+1F17A", "U+1F17B", "U+1F17C",
            "U+1F17D", "U+1F17E", "U+1F17F", "U+1F180", "U+1F181", "U+1F182", "U+1F183", "U+1F184", "U+1F185", "U+1F186", "U+1F187", "U+1F188", "U+1F189"
          }
        CaseIgnorable ==
          {
            "'", ".", ":", "^", "U+0060", "¨", "­", "¯", "´", "·", "¸", "ʰ", "ʱ", "ʲ", "ʳ", "ʴ",
            "ʵ", "ʶ", "ʷ", "ʸ", "ʹ", "ʺ", "ʻ", "ʼ", "ʽ", "ʾ", "ʿ", "ˀ", "ˁ", "˂", "˃", "˄",
            "˅", "ˆ", "ˇ", "ˈ", "ˉ", "ˊ", "ˋ", "ˌ", "ˍ", "ˎ", "ˏ", "ː", "ˑ", "˒", "˓", "˔",
            "˕", "˖", "˗", "˘", "˙", "˚", "˛", "˜", "˝", "˞", "˟", "ˠ", "ˡ", "ˢ", "ˣ", "ˤ",
            "˥", "˦", "˧", "˨", "˩", "˪", "˫", "ˬ", "˭", "ˮ", "˯", "˰", "˱", "˲", "˳", "˴",
            "˵", "˶", "˷", "˸", "˹", "˺", "˻", "˼", "˽", "˾", "˿", "U+0300", "U+0301", "U+0302", "U+0303", "U+0304",
            "U+0305", "U+0306", "U+0307", "U+0308", "U+0309", "U+030A", "U+030B", "U+030C", "U+030D", "U+030E", "U+030F", "U+0310", "U+0311", "U+0312", "U+0313", "U+0314",
            "U+0315", "U+0316", "U+0317", "U+0318", "U+0319", "U+031A", "U+031B", "U+031C", "U+031D", "U+031E", "U+031F", "U+0320", "U+0321", "U+0322", "U+0323", "U+0324",
            "U+0325", "U+0326", "U+0327", "U+0328", "U+0329", "U+032A", "U+032B", "U+032C", "U+032D", "U+032E", "U+032F", "U+0330", "U+0331", "U+0332", "U+0333", "U+0334",
            "U+0335", "U+0336", "U+0337", "U+0338", "U+0339", "U+033A", "U+033B", "U+033C", "U+033D", "U+033E", "U+033F", "U+0340", "U+0341", "U+0342", "U+0343", "U+0344",
            "U+0345", "U+0346", "U+0347", "U+0348", "U+0349", "U+034A", "U+034B", "U+034C", "U+034D", "U+034E", "U+034F", "U+0350", "U+0351", "U+0352", "U+0353", "U+0354",
            "U+0355", "U+0356", "U+0357", "U+0358", "U+0359", "U+035A", "U+035B", "U+035C", "U+035D", "U+035E", "U+035F", "U+0360", "U+0361", "U+0362", "U+0363", "U+0364",
            "U+0365", "U+0366", "U+0367", "U+0368", "U+0369", "U+036A", "U+036B", "U+036C", "U+036D", "U+036E", "U+036F", "U+0374", "U+0375", "U+037A", "΄", "΅",
            "·", "҃", "҄", "҅", "҆", "҇", "҈", "҉", "U+0559", "U+055F", "֑", "֒", "֓", "֔", "֕", "֖",
            "֗", "֘", "֙", "֚", "֛", "֜", "֝", "֞", "֟", "֠", "֡", "֢", "֣", "֤", "֥", "֦",
            "֧", "֨", "֩", "֪", "֫", "֬", "֭", "֮", "֯", "ְ", "ֱ", "ֲ", "ֳ", "ִ", "ֵ", "ֶ",
            "ַ", "ָ", "ֹ", "ֺ", "ֻ", "ּ", "ֽ", "ֿ", "ׁ", "ׂ", "ׄ", "ׅ", "ׇ", "״", "U+0600", "U+0601",
            "U+0602", "U+0603", "U+0604", "U+0605", "U+0610", "U+0611", "U+0612", "U+0613", "U+0614", "U+0615", "U+0616", "U+0617", "U+0618", "U+0619", "U+061A", "U+061C",
            "U+0640", "U+064B", "U+064C", "U+064D", "U+064E", "U+064F", "U+0650", "U+0651", "U+0652", "U+0653", "U+0654", "U+0655", "U+0656", "U+0657", "U+0658", "U+0659",
            "U+065A", "U+065B", "U+065C", "U+065D", "U+065E", "U+065F", "U+0670", "ۖ", "ۗ", "ۘ", "ۙ", "ۚ", "ۛ", "ۜ", "۝", "۟",
            "۠", "ۡ", "ۢ", "ۣ", "ۤ", "ۥ", "ۦ", "ۧ", "ۨ", "۪", "۫", "۬", "ۭ", "U+070F", "U+0711", "U+0730",
            "U+0731", "U+0732", "U+0733", "U+0734", "U+0735", "U+0736", "U+0737", "U+0738", "U+0739", "U+073A", "U+073B", "U+073C", "U+073D", "U+073E", "U+073F", "U+0740",
            "U+0741", "U+0742", "U+0743", "U+0744", "U+0745", "U+0746", "U+0747", "U+0748", "U+0749", "U+074A", "ަ", "ާ", "ި", "ީ", "ު", "ޫ",
            "ެ", "ޭ", "ޮ", "ޯ", "ް", "߫", "߬", "߭", "߮", "߯", "߰", "߱", "߲", "߳", "ߴ", "ߵ",
            "ߺ", "߽", "U+0816", "U+0817", "U+0818", "U+0819", "U+081A", "U+081B", "U+081C", "U+081D", "U+081E", "U+081F", "U+0820", "U+0821", "U+0822", "U+0823",
            "U+0824", "U+0825", "U+0826", "U+0827", "U+0828", "U+0829", "U+082A", "U+082B", "U+082C", "U+082D", "U+0859", "U+085A", "U+085B", "࢈", "࢐", "࢑",
            "࢘", "࢙", "࢚", "࢛", "࢜", "࢝", "࢞", "࢟", "ࣉ", "࣊", "࣋", "࣌", "࣍", "࣎", "࣏", "࣐",
            "࣑", "࣒", "࣓", "ࣔ", "ࣕ", "ࣖ", "ࣗ", "ࣘ", "ࣙ", "ࣚ", "ࣛ", "ࣜ", "ࣝ", "ࣞ", "ࣟ", "࣠",
            "࣡", "࣢", "ࣣ", "ࣤ", "ࣥ", "ࣦ", "ࣧ", "ࣨ", "ࣩ", "࣪", "࣫", "࣬", "࣭", "࣮", "࣯", "ࣰ",
            "ࣱ", "ࣲ", "ࣳ", "ࣴ", "ࣵ", "ࣶ", "ࣷ", "ࣸ", "ࣹ", "ࣺ", "ࣻ", "ࣼ", "ࣽ", "ࣾ", "ࣿ", "U+0900",
            "U+0901", "U+0902", "U+093A", "U+093C", "U+0941", "U+0942", "U+0943", "U+0944", "U+0945", "U+0946", "U+0947", "U+0948", "U+094D", "U+0951", "U+0952", "U+0953",
            "U+0954", "U+0955", "U+0956", "U+0957", "U+0962", "U+0963", "U+0971", "ঁ", "়", "ু", "ূ", "ৃ", "ৄ", "্", "ৢ", "ৣ",
            "৾", "U+0A01", "U+0A02", "U+0A3C", "U+0A41", "U+0A42", "U+0A47", "U+0A48", "U+0A4B", "U+0A4C", "U+0A4D", "U+0A51", "U+0A70", "U+0A71", "U+0A75", "ઁ",
            "ં", "઼", "ુ", "ૂ", "ૃ", "ૄ", "ૅ", "ે", "ૈ", "્", "ૢ", "ૣ", "ૺ", "ૻ", "ૼ", "૽",
            "૾", "૿", "U+0B01", "U+0B3C", "U+0B3F", "U+0B41", "U+0B42", "U+0B43", "U+0B44", "U+0B4D", "U+0B55", "U+0B56", "U+0B62", "U+0B63", "ஂ", "ீ",
            "்", "U+0C00", "U+0C04", "U+0C3C", "U+0C3E", "U+0C3F", "U+0C40", "U+0C46", "U+0C47", "U+0C48", "U+0C4A", "U+0C4B", "U+0C4C", "U+0C4D", "U+0C55", "U+0C56",
            "U+0C62", "U+0C63", "ಁ", "಼", "ಿ", "ೆ", "ೌ", "್", "ೢ", "ೣ", "U+0D00", "U+0D01", "U+0D3B", "U+0D3C", "U+0D41", "U+0D42",
            "U+0D43", "U+0D44", "U+0D4D", "U+0D62", "U+0D63", "ඁ", "්", "ි", "ී", "ු", "ූ", "U+0E31", "U+0E34", "U+0E35", "U+0E36", "U+0E37",
            "U+0E38", "U+0E39", "U+0E3A", "U+0E46", "U+0E47", "U+0E48", "U+0E49", "U+0E4A", "U+0E4B", "U+0E4C", "U+0E4D", "U+0E4E", "ັ", "ິ", "ີ", "ຶ",
            "ື", "ຸ", "ູ", "຺", "ົ", "ຼ", "ໆ", "່", "້", "໊", "໋", "໌", "ໍ", "U+0F18", "U+0F19", "U+0F35",
            "U+0F37", "U+0F39", "U+0F71", "U+0F72", "U+0F73", "U+0F74", "U+0F75", "U+0F76", "U+0F77", "U+0F78", "U+0F79", "U+0F7A", "U+0F7B", "U+0F7C", "U+0F7D", "U+0F7E",
            "ྀ", "ཱྀ", "ྂ", "ྃ", "྄", "྆", "྇", "ྍ", "ྎ", "ྏ", "ྐ", "ྑ", "ྒ", "ྒྷ", "ྔ", "ྕ",
            "ྖ", "ྗ", "ྙ", "ྚ", "ྛ", "ྜ", "ྜྷ", "ྞ", "ྟ", "ྠ", "ྡ", "ྡྷ", "ྣ", "ྤ", "ྥ", "ྦ",
            "ྦྷ", "ྨ", "ྩ", "ྪ", "ྫ", "ྫྷ", "ྭ", "ྮ", "ྯ", "ྰ", "ྱ", "ྲ", "ླ", "ྴ", "ྵ", "ྶ",
            "ྷ", "ྸ", "ྐྵ", "ྺ", "ྻ", "ྼ", "࿆", "U+102D", "U+102E", "U+102F", "U+1030", "U+1032", "U+1033", "U+1034", "U+1035", "U+1036",
            "U+1037", "U+1039", "U+103A", "U+103D", "U+103E", "U+1058", "U+1059", "U+105E", "U+105F", "U+1060", "U+1071", "U+1072", "U+1073", "U+1074", "ႂ", "ႅ",
            "ႆ", "ႍ", "ႝ", "ჼ", "U+135D", "U+135E", "U+135F", "U+1712", "U+1713", "U+1714", "U+1732", "U+1733", "U+1752", "U+1753", "U+1772", "U+1773",
            "឴", "឵", "ិ", "ី", "ឹ", "ឺ", "ុ", "ូ", "ួ", "ំ", "៉", "៊", "់", "៌", "៍", "៎",
            "៏", "័", "៑", "្", "៓", "ៗ", "៝", "U+180B", "U+180C", "U+180D", "U+180E", "U+180F", "U+1843", "ᢅ", "ᢆ", "ᢩ",
            "U+1920", "U+1921", "U+1922", "U+1927", "U+1928", "U+1932", "U+1939", "U+193A", "U+193B", "U+1A17", "U+1A18", "U+1A1B", "U+1A56", "U+1A58", "U+1A59", "U+1A5A",
            "U+1A5B", "U+1A5C", "U+1A5D", "U+1A5E", "U+1A60", "U+1A62", "U+1A65", "U+1A66", "U+1A67", "U+1A68", "U+1A69", "U+1A6A", "U+1A6B", "U+1A6C", "U+1A73", "U+1A74",
            "U+1A75", "U+1A76", "U+1A77", "U+1A78", "U+1A79", "U+1A7A", "U+1A7B", "U+1A7C", "U+1A7F", "ᪧ", "᪰", "᪱", "᪲", "᪳", "᪴", "᪵",
            "᪶", "᪷", "᪸", "᪹", "᪺", "᪻", "᪼", "᪽", "᪾", "ᪿ", "ᫀ", "᫁", "᫂", "᫃", "᫄", "᫅",
            "᫆", "᫇", "᫈", "᫉", "᫊", "᫋", "ᫌ", "ᫍ", "ᫎ", "U+1B00", "U+1B01", "U+1B02", "U+1B03", "U+1B34", "U+1B36", "U+1B37",
            "U+1B38", "U+1B39", "U+1B3A", "U+1B3C", "U+1B42", "U+1B6B", "U+1B6C", "U+1B6D", "U+1B6E", "U+1B6F", "U+1B70", "U+1B71", "U+1B72", "U+1B73", "ᮀ", "ᮁ",
            "ᮢ", "ᮣ", "ᮤ", "ᮥ", "ᮨ", "ᮩ", "᮫", "ᮬ", "ᮭ", "᯦", "ᯨ", "ᯩ", "ᯭ", "ᯯ", "ᯰ", "ᯱ",
            "U+1C2C", "U+1C2D", "U+1C2E", "U+1C2F", "U+1C30", "U+1C31", "U+1C32", "U+1C33", "U+1C36", "U+1C37", "U+1C78", "U+1C79", "U+1C7A", "U+1C7B", "U+1C7C", "U+1C7D",
            "᳐", "᳑", "᳒", "᳔", "᳕", "᳖", "᳗", "᳘", "᳙", "᳚", "᳛", "᳜", "᳝", "᳞", "᳟", "᳠",
            "᳢", "᳣", "᳤", "᳥", "᳦", "᳧", "᳨", "᳭", "᳴", "᳸", "᳹", "U+1D2C", "U+1D2D", "U+1D2E", "U+1D2F", "U+1D30",
            "U+1D31", "U+1D32", "U+1D33", "U+1D34", "U+1D35", "U+1D36", "U+1D37", "U+1D38", "U+1D39", "U+1D3A", "U+1D3B", "U+1D3C", "U+1D3D", "U+1D3E", "U+1D3F", "U+1D40",
            "U+1D41", "U+1D42", "U+1D43", "U+1D44", "U+1D45", "U+1D46", "U+1D47", "U+1D48", "U+1D49", "U+1D4A", "U+1D4B", "U+1D4C", "U+1D4D", "U+1D4E", "U+1D4F", "U+1D50",
            "U+1D51", "U+1D52", "U+1D53", "U+1D54", "U+1D55", "U+1D56", "U+1D57", "U+1D58", "U+1D59", "U+1D5A", "U+1D5B", "U+1D5C", "U+1D5D", "U+1D5E", "U+1D5F", "U+1D60",
            "U+1D61", "U+1D62", "U+1D63", "U+1D64", "U+1D65", "U+1D66", "U+1D67", "U+1D68", "U+1D69", "U+1D6A", "U+1D78", "ᶛ", "ᶜ", "ᶝ", "ᶞ", "ᶟ",
            "ᶠ", "ᶡ", "ᶢ", "ᶣ", "ᶤ", "ᶥ", "ᶦ", "ᶧ", "ᶨ", "ᶩ", "ᶪ", "ᶫ", "ᶬ", "ᶭ", "ᶮ", "ᶯ",
            "ᶰ", "ᶱ", "ᶲ", "ᶳ", "ᶴ", "ᶵ", "ᶶ", "ᶷ", "ᶸ", "ᶹ", "ᶺ", "ᶻ", "ᶼ", "ᶽ", "ᶾ", "ᶿ",
            "᷀", "᷁", "᷂", "᷃", "᷄", "᷅", "᷆", "᷇", "᷈", "᷉", "᷊", "᷋", "᷌", "᷍", "᷎", "᷏",
            "᷐", "᷑", "᷒", "ᷓ", "ᷔ", "ᷕ", "ᷖ", "ᷗ", "ᷘ", "ᷙ", "ᷚ", "ᷛ", "ᷜ", "ᷝ", "ᷞ", "ᷟ",
            "ᷠ", "ᷡ", "ᷢ", "ᷣ", "ᷤ", "ᷥ", "ᷦ", "ᷧ", "ᷨ", "ᷩ", "ᷪ", "ᷫ", "ᷬ", "ᷭ", "ᷮ", "ᷯ",
            "ᷰ", "ᷱ", "ᷲ", "ᷳ", "ᷴ", "᷵", "᷶", "᷷", "᷸", "᷹", "᷺", "᷻", "᷼", "᷽", "᷾", "᷿",
            "᾽", "᾿", "῀", "῁", "῍", "῎", "῏", "῝", "῞", "῟", "῭", "΅", "`", "´", "῾", "U+200B",
            "U+200C", "U+200D", "U+200E", "U+200F", "U+2018", "U+2019", "U+2024", "U+2027", "U+202A", "U+202B", "U+202C", "U+202D", "U+202E", "U+2060", "U+2061", "U+2062",
            "U+2063", "U+2064", "U+2066", "U+2067", "U+2068", "U+2069", "U+206A", "U+206B", "U+206C", "U+206D", "U+206E", "U+206F", "U+2071", "U+207F", "ₐ", "ₑ",
            "ₒ", "ₓ", "ₔ", "ₕ", "ₖ", "ₗ", "ₘ", "ₙ", "ₚ", "ₛ", "ₜ", "⃐", "⃑", "⃒", "⃓", "⃔",
            "⃕", "⃖", "⃗", "⃘", "⃙", "⃚", "⃛", "⃜", "⃝", "⃞", "⃟", "⃠", "⃡", "⃢", "⃣", "⃤",
            "⃥", "⃦", "⃧", "⃨", "⃩", "⃪", "⃫", "⃬", "⃭", "⃮", "⃯", "⃰", "U+2C7C", "U+2C7D", "⳯", "⳰",
            "⳱", "U+2D6F", "U+2D7F", "ⷠ", "ⷡ", "ⷢ", "ⷣ", "ⷤ", "ⷥ", "ⷦ", "ⷧ", "ⷨ", "ⷩ", "ⷪ", "ⷫ", "ⷬ",
            "ⷭ", "ⷮ", "ⷯ", "ⷰ", "ⷱ", "ⷲ", "ⷳ", "ⷴ", "ⷵ", "ⷶ", "ⷷ", "ⷸ", "ⷹ", "ⷺ", "ⷻ", "ⷼ",
            "ⷽ", "ⷾ", "ⷿ", "U+2E2F", "U+3005", "U+302A", "U+302B", "U+302C", "U+302D", "U+3031", "U+3032", "U+3033", "U+3034", "U+3035", "U+303B", "゙",
            "゚", "゛", "゜", "ゝ", "ゞ", "ー", "ヽ", "ヾ", "U+A015", "ꓸ", "ꓹ", "ꓺ", "ꓻ", "ꓼ", "ꓽ", "U+A60C",
            "U+A66F", "U+A670", "U+A671", "U+A672", "U+A674", "U+A675", "U+A676", "U+A677", "U+A678", "U+A679", "U+A67A", "U+A67B", "U+A67C", "U+A67D", "U+A67F", "ꚜ",
            "ꚝ", "ꚞ", "ꚟ", "꛰", "꛱", "U+A700", "U+A701", "U+A702", "U+A703", "U+A704", "U+A705", "U+A706", "U+A707", "U+A708", "U+A709", "U+A70A",
            "U+A70B", "U+A70C", "U+A70D", "U+A70E", "U+A70F", "U+A710", "U+A711", "U+A712", "U+A713", "U+A714", "U+A715", "U+A716", "U+A717", "U+A718", "U+A719", "U+A71A",
            "U+A71B", "U+A71C", "U+A71D", "U+A71E", "U+A71F", "U+A720", "U+A721", "U+A770", "ꞈ", "꞉", "꞊", "ꟲ", "ꟳ", "ꟴ", "ꟸ", "ꟹ",
            "U+A802", "U+A806", "U+A80B", "U+A825", "U+A826", "U+A82C", "꣄", "ꣅ", "꣠", "꣡", "꣢", "꣣", "꣤", "꣥", "꣦", "꣧",
            "꣨", "꣩", "꣪", "꣫", "꣬", "꣭", "꣮", "꣯", "꣰", "꣱", "ꣿ", "U+A926", "U+A927", "U+A928", "U+A929", "U+A92A",
            "U+A92B", "U+A92C", "U+A92D", "U+A947", "U+A948", "U+A949", "U+A94A", "U+A94B", "U+A94C", "U+A94D", "U+A94E", "U+A94F", "U+A950", "U+A951", "ꦀ", "ꦁ",
            "ꦂ", "꦳", "ꦶ", "ꦷ", "ꦸ", "ꦹ", "ꦼ", "ꦽ", "ꧏ", "ꧥ", "ꧦ", "U+AA29", "U+AA2A", "U+AA2B", "U+AA2C", "U+AA2D",
            "U+AA2E", "U+AA31", "U+AA32", "U+AA35", "U+AA36", "U+AA43", "U+AA4C", "U+AA70", "U+AA7C", "ꪰ", "ꪲ", "ꪳ", "ꪴ", "ꪷ", "ꪸ", "ꪾ",
            "꪿", "꫁", "ꫝ", "ꫬ", "ꫭ", "ꫳ", "ꫴ", "꫶", "U+AB5B", "U+AB5C", "U+AB5D", "U+AB5E", "U+AB5F", "U+AB69", "U+AB6A", "U+AB6B",
            "ꯥ", "ꯨ", "꯭", "U+FB1E", "﮲", "﮳", "﮴", "﮵", "﮶", "﮷", "﮸", "﮹", "﮺", "﮻", "﮼", "﮽",
            "﮾", "﮿", "﯀", "﯁", "﯂", "U+FE00", "U+FE01", "U+FE02", "U+FE03", "U+FE04", "U+FE05", "U+FE06", "U+FE07", "U+FE08", "U+FE09", "U+FE0A",
            "U+FE0B", "U+FE0C", "U+FE0D", "U+FE0E", "U+FE0F", "U+FE13", "U+FE20", "U+FE21", "U+FE22", "U+FE23", "U+FE24", "U+FE25", "U+FE26", "U+FE27", "U+FE28", "U+FE29",
            "U+FE2A", "U+FE2B", "U+FE2C", "U+FE2D", "U+FE2E", "U+FE2F", "U+FE52", "U+FE55", "﻿", "U+FF07", "U+FF0E", "U+FF1A", "U+FF3E", "U+FF40", "U+FF70", "ﾞ",
            "ﾟ", "￣", "￹", "￺", "￻", "U+101FD", "U+102E0", "U+10376", "U+10377", "U+10378", "U+10379", "U+1037A", "U+10780", "U+10781", "U+10782", "U+10783",
            "U+10784", "U+10785", "U+10787", "U+10788", "U+10789", "U+1078A", "U+1078B", "U+1078C", "U+1078D", "U+1078E", "U+1078F", "U+10790", "U+10791", "U+10792", "U+10793", "U+10794",
            "U+10795", "U+10796", "U+10797", "U+10798", "U+10799", "U+1079A", "U+1079B", "U+1079C", "U+1079D", "U+1079E", "U+1079F", "U+107A0", "U+107A1", "U+107A2", "U+107A3", "U+107A4",
            "U+107A5", "U+107A6", "U+107A7", "U+107A8", "U+107A9", "U+107AA", "U+107AB", "U+107AC", "U+107AD", "U+107AE", "U+107AF", "U+107B0", "U+107B2", "U+107B3", "U+107B4", "U+107B5",
            "U+107B6", "U+107B7", "U+107B8", "U+107B9", "U+107BA", "U+10A01", "U+10A02", "U+10A03", "U+10A05", "U+10A06", "U+10A0C", "U+10A0D", "U+10A0E", "U+10A0F", "U+10A38", "U+10A39",
            "U+10A3A", "U+10A3F", "U+10AE5", "U+10AE6", "U+10D24", "U+10D25", "U+10D26", "U+10D27", "U+10EAB", "U+10EAC", "U+10F46", "U+10F47", "U+10F48", "U+10F49", "U+10F4A", "U+10F4B",
            "U+10F4C", "U+10F4D", "U+10F4E", "U+10F4F", "U+10F50", "U+10F82", "U+10F83", "U+10F84", "U+10F85", "U+11001", "U+11038", "U+11039", "U+1103A", "U+1103B", "U+1103C", "U+1103D",
            "U+1103E", "U+1103F", "U+11040", "U+11041", "U+11042", "U+11043", "U+11044", "U+11045", "U+11046", "U+11070", "U+11073", "U+11074", "U+1107F", "U+11080", "U+11081", "U+110B3",
            "U+110B4", "U+110B5", "U+110B6", "U+110B9", "U+110BA", "U+110BD", "U+110C2", "U+110CD", "U+11100", "U+11101", "U+11102", "U+11127", "U+11128", "U+11129", "U+1112A", "U+1112B",
            "U+1112D", "U+1112E", "U+1112F", "U+11130", "U+11131", "U+11132", "U+11133", "U+11134", "U+11173", "U+11180", "U+11181", "U+111B6", "U+111B7", "U+111B8", "U+111B9", "U+111BA",
            "U+111BB", "U+111BC", "U+111BD", "U+111BE", "U+111C9", "U+111CA", "U+111CB", "U+111CC", "U+111CF", "U+1122F", "U+11230", "U+11231", "U+11234", "U+11236", "U+11237", "U+1123E",
            "U+112DF", "U+112E3", "U+112E4", "U+112E5", "U+112E6", "U+112E7", "U+112E8", "U+112E9", "U+112EA", "U+11300", "U+11301", "U+1133B", "U+1133C", "U+11340", "U+11366", "U+11367",
            "U+11368", "U+11369", "U+1136A", "U+1136B", "U+1136C", "U+11370", "U+11371", "U+11372", "U+11373", "U+11374", "U+11438", "U+11439", "U+1143A", "U+1143B", "U+1143C", "U+1143D",
            "U+1143E", "U+1143F", "U+11442", "U+11443", "U+11444", "U+11446", "U+1145E", "U+114B3", "U+114B4", "U+114B5", "U+114B6", "U+114B7", "U+114B8", "U+114BA", "U+114BF", "U+114C0",
            "U+114C2", "U+114C3", "U+115B2", "U+115B3", "U+115B4", "U+115B5", "U+115BC", "U+115BD", "U+115BF", "U+115C0", "U+115DC", "U+115DD", "U+11633", "U+11634", "U+11635", "U+11636",
            "U+11637", "U+11638", "U+11639", "U+1163A", "U+1163D", "U+1163F", "U+11640", "U+116AB", "U+116AD", "U+116B0", "U+116B1", "U+116B2", "U+116B3", "U+116B4", "U+116B5", "U+116B7",
            "U+1171D", "U+1171E", "U+1171F", "U+11722", "U+11723", "U+11724", "U+11725", "U+11727", "U+11728", "U+11729", "U+1172A", "U+1172B", "U+1182F", "U+11830", "U+11831", "U+11832",
            "U+11833", "U+11834", "U+11835", "U+11836", "U+11837", "U+11839", "U+1183A", "U+1193B", "U+1193C", "U+1193E", "U+11943", "U+119D4", "U+119D5", "U+119D6", "U+119D7", "U+119DA",
            "U+119DB", "U+119E0", "U+11A01", "U+11A02", "U+11A03", "U+11A04", "U+11A05", "U+11A06", "U+11A07", "U+11A08", "U+11A09", "U+11A0A", "U+11A33", "U+11A34", "U+11A35", "U+11A36",
            "U+11A37", "U+11A38", "U+11A3B", "U+11A3C", "U+11A3D", "U+11A3E", "U+11A47", "U+11A51", "U+11A52", "U+11A53", "U+11A54", "U+11A55", "U+11A56", "U+11A59", "U+11A5A", "U+11A5B",
            "U+11A8A", "U+11A8B", "U+11A8C", "U+11A8D", "U+11A8E", "U+11A8F", "U+11A90", "U+11A91", "U+11A92", "U+11A93", "U+11A94", "U+11A95", "U+11A96", "U+11A98", "U+11A99", "U+11C30",
            "U+11C31", "U+11C32", "U+11C33", "U+11C34", "U+11C35", "U+11C36", "U+11C38", "U+11C39", "U+11C3A", "U+11C3B", "U+11C3C", "U+11C3D", "U+11C3F", "U+11C92", "U+11C93", "U+11C94",
            "U+11C95", "U+11C96", "U+11C97", "U+11C98", "U+11C99", "U+11C9A", "U+11C9B", "U+11C9C", "U+11C9D", "U+11C9E", "U+11C9F", "U+11CA0", "U+11CA1", "U+11CA2", "U+11CA3", "U+11CA4",
            "U+11CA5", "U+11CA6", "U+11CA7", "U+11CAA", "U+11CAB", "U+11CAC", "U+11CAD", "U+11CAE", "U+11CAF", "U+11CB0", "U+11CB2", "U+11CB3", "U+11CB5", "U+11CB6", "U+11D31", "U+11D32",
            "U+11D33", "U+11D34", "U+11D35", "U+11D36", "U+11D3A", "U+11D3C", "U+11D3D", "U+11D3F", "U+11D40", "U+11D41", "U+11D42", "U+11D43", "U+11D44", "U+11D45", "U+11D47", "U+11D90",
            "U+11D91", "U+11D95", "U+11D97", "U+11EF3", "U+11EF4", "U+13430", "U+13431", "U+13432", "U+13433", "U+13434", "U+13435", "U+13436", "U+13437", "U+13438", "U+16AF0", "U+16AF1",
            "U+16AF2", "U+16AF3", "U+16AF4", "U+16B30", "U+16B31", "U+16B32", "U+16B33", "U+16B34", "U+16B35", "U+16B36", "U+16B40", "U+16B41", "U+16B42", "U+16B43", "U+16F4F", "U+16F8F",
            "U+16F90", "U+16F91", "U+16F92", "U+16F93", "U+16F94", "U+16F95", "U+16F96", "U+16F97", "U+16F98", "U+16F99", "U+16F9A", "U+16F9B", "U+16F9C", "U+16F9D", "U+16F9E", "U+16F9F",
            "U+16FE0", "U+16FE1", "U+16FE3", "U+16FE4", "U+1AFF0", "U+1AFF1", "U+1AFF2", "U+1AFF3", "U+1AFF5", "U+1AFF6", "U+1AFF7", "U+1AFF8", "U+1AFF9", "U+1AFFA", "U+1AFFB", "U+1AFFD",
            "U+1AFFE", "U+1BC9D", "U+1BC9E", "U+1BCA0", "U+1BCA1", "U+1BCA2", "U+1BCA3", "U+1CF00", "U+1CF01", "U+1CF02", "U+1CF03", "U+1CF04", "U+1CF05", "U+1CF06", "U+1CF07", "U+1CF08",
            "U+1CF09", "U+1CF0A", "U+1CF0B", "U+1CF0C", "U+1CF0D", "U+1CF0E", "U+1CF0F", "U+1CF10", "U+1CF11", "U+1CF12", "U+1CF13", "U+1CF14", "U+1CF15", "U+1CF16", "U+1CF17", "U+1CF18",
            "U+1CF19", "U+1CF1A", "U+1CF1B", "U+1CF1C", "U+1CF1D", "U+1CF1E", "U+1CF1F", "U+1CF20", "U+1CF21", "U+1CF22", "U+1CF23", "U+1CF24", "U+1CF25", "U+1CF26", "U+1CF27", "U+1CF28",
            "U+1CF29", "U+1CF2A", "U+1CF2B", "U+1CF2C", "U+1CF2D", "U+1CF30", "U+1CF31", "U+1CF32", "U+1CF33", "U+1CF34", "U+1CF35", "U+1CF36", "U+1CF37", "U+1CF38", "U+1CF39", "U+1CF3A",
            "U+1CF3B", "U+1CF3C", "U+1CF3D", "U+1CF3E", "U+1CF3F", "U+1CF40", "U+1CF41", "U+1CF42", "U+1CF43", "U+1CF44", "U+1CF45", "U+1CF46", "U+1D167", "U+1D168", "U+1D169", "U+1D173",
            "U+1D174", "U+1D175", "U+1D176", "U+1D177", "U+1D178", "U+1D179", "U+1D17A", "U+1D17B", "U+1D17C", "U+1D17D", "U+1D17E", "U+1D17F", "U+1D180", "U+1D181", "U+1D182", "U+1D185",
            "U+1D186", "U+1D187", "U+1D188", "U+1D189", "U+1D18A", "U+1D18B", "U+1D1AA", "U+1D1AB", "U+1D1AC", "U+1D1AD", "U+1D242", "U+1D243", "U+1D244", "U+1DA00", "U+1DA01", "U+1DA02",
            "U+1DA03", "U+1DA04", "U+1DA05", "U+1DA06", "U+1DA07", "U+1DA08", "U+1DA09", "U+1DA0A", "U+1DA0B", "U+1DA0C", "U+1DA0D", "U+1DA0E", "U+1DA0F", "U+1DA10", "U+1DA11", "U+1DA12",
            "U+1DA13", "U+1DA14", "U+1DA15", "U+1DA16", "U+1DA17", "U+1DA18", "U+1DA19", "U+1DA1A", "U+1DA1B", "U+1DA1C", "U+1DA1D", "U+1DA1E", "U+1DA1F", "U+1DA20", "U+1DA21", "U+1DA22",
            "U+1DA23", "U+1DA24", "U+1DA25", "U+1DA26", "U+1DA27", "U+1DA28", "U+1DA29", "U+1DA2A", "U+1DA2B", "U+1DA2C", "U+1DA2D", "U+1DA2E", "U+1DA2F", "U+1DA30", "U+1DA31", "U+1DA32",
            "U+1DA33", "U+1DA34", "U+1DA35", "U+1DA36", "U+1DA3B", "U+1DA3C", "U+1DA3D", "U+1DA3E", "U+1DA3F", "U+1DA40", "U+1DA41", "U+1DA42", "U+1DA43", "U+1DA44", "U+1DA45", "U+1DA46",
            "U+1DA47", "U+1DA48", "U+1DA49", "U+1DA4A", "U+1DA4B", "U+1DA4C", "U+1DA4D", "U+1DA4E", "U+1DA4F", "U+1DA50", "U+1DA51", "U+1DA52", "U+1DA53", "U+1DA54", "U+1DA55", "U+1DA56",
            "U+1DA57", "U+1DA58", "U+1DA59", "U+1DA5A", "U+1DA5B", "U+1DA5C", "U+1DA5D", "U+1DA5E", "U+1DA5F", "U+1DA60", "U+1DA61", "U+1DA62", "U+1DA63", "U+1DA64", "U+1DA65", "U+1DA66",
            "U+1DA67", "U+1DA68", "U+1DA69", "U+1DA6A", "U+1DA6B", "U+1DA6C", "U+1DA75", "U+1DA84", "U+1DA9B", "U+1DA9C", "U+1DA9D", "U+1DA9E", "U+1DA9F", "U+1DAA1", "U+1DAA2", "U+1DAA3",
            "U+1DAA4", "U+1DAA5", "U+1DAA6", "U+1DAA7", "U+1DAA8", "U+1DAA9", "U+1DAAA", "U+1DAAB", "U+1DAAC", "U+1DAAD", "U+1DAAE", "U+1DAAF", "U+1E000", "U+1E001", "U+1E002", "U+1E003",
            "U+1E004", "U+1E005", "U+1E006", "U+1E008", "U+1E009", "U+1E00A", "U+1E00B", "U+1E00C", "U+1E00D", "U+1E00E", "U+1E00F", "U+1E010", "U+1E011", "U+1E012", "U+1E013", "U+1E014",
            "U+1E015", "U+1E016", "U+1E017", "U+1E018", "U+1E01B", "U+1E01C", "U+1E01D", "U+1E01E", "U+1E01F", "U+1E020", "U+1E021", "U+1E023", "U+1E024", "U+1E026", "U+1E027", "U+1E028",
            "U+1E029", "U+1E02A", "U+1E130", "U+1E131", "U+1E132", "U+1E133", "U+1E134", "U+1E135", "U+1E136", "U+1E137", "U+1E138", "U+1E139", "U+1E13A", "U+1E13B", "U+1E13C", "U+1E13D",
            "U+1E2AE", "U+1E2EC", "U+1E2ED", "U+1E2EE", "U+1E2EF", "U+1E8D0", "U+1E8D1", "U+1E8D2", "U+1E8D3", "U+1E8D4", "U+1E8D5", "U+1E8D6", "U+1E944", "U+1E945", "U+1E946", "U+1E947",
            "U+1E948", "U+1E949", "U+1E94A", "U+1E94B", "U+1F3FB", "U+1F3FC", "U+1F3FD", "U+1F3FE", "U+1F3FF", "U+E0001", "U+E0020", "U+E0021", "U+E0022", "U+E0023", "U+E0024", "U+E0025",
            "U+E0026", "U+E0027", "U+E0028", "U+E0029", "U+E002A", "U+E002B", "U+E002C", "U+E002D", "U+E002E", "U+E002F", "U+E0030", "U+E0031", "U+E0032", "U+E0033", "U+E0034", "U+E0035",
            "U+E0036", "U+E0037", "U+E0038", "U+E0039", "U+E003A", "U+E003B", "U+E003C", "U+E003D", "U+E003E", "U+E003F", "U+E0040", "U+E0041", "U+E0042", "U+E0043", "U+E0044", "U+E0045",
            "U+E0046", "U+E0047", "U+E0048", "U+E0049", "U+E004A", "U+E004B", "U+E004C", "U+E004D", "U+E004E", "U+E004F", "U+E0050", "U+E0051", "U+E0052", "U+E0053", "U+E0054", "U+E0055",
            "U+E0056", "U+E0057", "U+E0058", "U+E0059", "U+E005A", "U+E005B", "U+E005C", "U+E005D", "U+E005E", "U+E005F", "U+E0060", "U+E0061", "U+E0062", "U+E0063", "U+E0064", "U+E0065",
            "U+E0066", "U+E0067", "U+E0068", "U+E0069", "U+E006A", "U+E006B", "U+E006C", "U+E006D", "U+E006E", "U+E006F", "U+E0070", "U+E0071", "U+E0072", "U+E0073", "U+E0074", "U+E0075",
            "U+E0076", "U+E0077", "U+E0078", "U+E0079", "U+E007A", "U+E007B", "U+E007C", "U+E007D", "U+E007E", "U+E007F", "U+E0100", "U+E0101", "U+E0102", "U+E0103", "U+E0104", "U+E0105",
            "U+E0106", "U+E0107", "U+E0108", "U+E0109", "U+E010A", "U+E010B", "U+E010C", "U+E010D", "U+E010E", "U+E010F", "U+E0110", "U+E0111", "U+E0112", "U+E0113", "U+E0114", "U+E0115",
            "U+E0116", "U+E0117", "U+E0118", "U+E0119", "U+E011A", "U+E011B", "U+E011C", "U+E011D", "U+E011E", "U+E011F", "U+E0120", "U+E0121", "U+E0122", "U+E0123", "U+E0124", "U+E0125",
            "U+E0126", "U+E0127", "U+E0128", "U+E0129", "U+E012A", "U+E012B", "U+E012C", "U+E012D", "U+E012E", "U+E012F", "U+E0130", "U+E0131", "U+E0132", "U+E0133", "U+E0134", "U+E0135",
            "U+E0136", "U+E0137", "U+E0138", "U+E0139", "U+E013A", "U+E013B", "U+E013C", "U+E013D", "U+E013E", "U+E013F", "U+E0140", "U+E0141", "U+E0142", "U+E0143", "U+E0144", "U+E0145",
            "U+E0146", "U+E0147", "U+E0148", "U+E0149", "U+E014A", "U+E014B", "U+E014C", "U+E014D", "U+E014E", "U+E014F", "U+E0150", "U+E0151", "U+E0152", "U+E0153", "U+E0154", "U+E0155",
            "U+E0156", "U+E0157", "U+E0158", "U+E0159", "U+E015A", "U+E015B", "U+E015C", "U+E015D", "U+E015E", "U+E015F", "U+E0160", "U+E0161", "U+E0162", "U+E0163", "U+E0164", "U+E0165",
            "U+E0166", "U+E0167", "U+E0168", "U+E0169", "U+E016A", "U+E016B", "U+E016C", "U+E016D", "U+E016E", "U+E016F", "U+E0170", "U+E0171", "U+E0172", "U+E0173", "U+E0174", "U+E0175",
            "U+E0176", "U+E0177", "U+E0178", "U+E0179", "U+E017A", "U+E017B", "U+E017C", "U+E017D", "U+E017E", "U+E017F", "U+E0180", "U+E0181", "U+E0182", "U+E0183", "U+E0184", "U+E0185",
            "U+E0186", "U+E0187", "U+E0188", "U+E0189", "U+E018A", "U+E018B", "U+E018C", "U+E018D", "U+E018E", "U+E018F", "U+E0190", "U+E0191", "U+E0192", "U+E0193", "U+E0194", "U+E0195",
            "U+E0196", "U+E0197", "U+E0198", "U+E0199", "U+E019A", "U+E019B", "U+E019C", "U+E019D", "U+E019E", "U+E019F", "U+E01A0", "U+E01A1", "U+E01A2", "U+E01A3", "U+E01A4", "U+E01A5",
            "U+E01A6", "U+E01A7", "U+E01A8", "U+E01A9", "U+E01AA", "U+E01AB", "U+E01AC", "U+E01AD", "U+E01AE", "U+E01AF", "U+E01B0", "U+E01B1", "U+E01B2", "U+E01B3", "U+E01B4", "U+E01B5",
            "U+E01B6", "U+E01B7", "U+E01B8", "U+E01B9", "U+E01BA", "U+E01BB", "U+E01BC", "U+E01BD", "U+E01BE", "U+E01BF", "U+E01C0", "U+E01C1", "U+E01C2", "U+E01C3", "U+E01C4", "U+E01C5",
            "U+E01C6", "U+E01C7", "U+E01C8", "U+E01C9", "U+E01CA", "U+E01CB", "U+E01CC", "U+E01CD", "U+E01CE", "U+E01CF", "U+E01D0", "U+E01D1", "U+E01D2", "U+E01D3", "U+E01D4", "U+E01D5",
            "U+E01D6", "U+E01D7", "U+E01D8", "U+E01D9", "U+E01DA", "U+E01DB", "U+E01DC", "U+E01DD", "U+E01DE", "U+E01DF", "U+E01E0", "U+E01E1", "U+E01E2", "U+E01E3", "U+E01E4", "U+E01E5",
            "U+E01E6", "U+E01E7", "U+E01E8", "U+E01E9", "U+E01EA", "U+E01EB", "U+E01EC", "U+E01ED", "U+E01EE", "U+E01EF"
          }
        before(i) == {j \in 1..(i - 1) : s[j] \notin CaseIgnorable}
        after(i)  == {j \in (i + 1)..Len(s) : s[j] \notin CaseIgnorable}
        final_sigma(i) ==
            /\ before(i) # {}
            /\ s[CHOOSE j \in before(i) : \A k \in before(i) : k <= j] \in Cased
            /\ \/ after(i) = {}
               \/ s[CHOOSE j \in after(i) : \A k \in after(i) : j <= k] \notin Cased
        lowered(i) ==
            IF s[i] = "Σ" THEN (IF final_sigma(i) THEN <<"ς">> ELSE <<"σ">>)
            ELSE LowerChar(s[i])
        RECURSIVE from(_)
        from(i) == IF i > Len(s) THEN << >> ELSE lowered(i) \o from(i + 1)
    IN  from(1)

\* str.upper()
RECURSIVE Upper(_)
Upper(s) == IF s = << >> THEN << >> ELSE UpperChar(Head(s)) \o Upper(Tail(s))

\* whitespace as str.strip() and the regex class \s see it
IsSpace(c) ==
    c \in {
          "\t", "\n", "", "\f", "\r", "", "", "", "", " ",
          "", " ", " ", "U+2000", "U+2001", "U+2002", "U+2003", "U+2004", "U+2005", "U+2006",
          "U+2007", "U+2008", "U+2009", "U+200A", "U+2028", "U+2029", "U+202F", "U+205F", "U+3000" }

\* the regex class \d
IsDigit(c) == c \in DecimalDigits.all

\* int() of one digit
DigitVal(c) ==
    ((CHOOSE i \in 1..Len(DecimalDigits.digits) : DecimalDigits.digits[i] = c) - 1) % 10

\* str.strip()
Strip(s) ==
    LET keep == {i \in 1..Len(s) : ~IsSpace(s[i])}
    IN  IF keep = {} THEN << >>
        ELSE LET lo == CHOOSE i \in keep : \A j \in keep : i <= j
                 hi == CHOOSE i \in keep : \A j \in keep : j <= i
             IN  SubSeq(s, lo, hi)

\* Python's `k in s` for strings: k occurs in s as a substring
Contains(s, k) ==
    \E i \in 1..(Len(s) - Len(k) + 1) : SubSeq(s, i, i + Len(k) - 1) = k

\* int(text) for a run of decimal digits
RECURSIVE ParseInt(_)
ParseInt(ds) ==
    IF ds = << >> THEN 0
    ELSE 10 * ParseInt(SubSeq(ds, 1, Len(ds) - 1)) + DigitVal(ds[Len(ds)])

\* str(n) / f"{n}" for a natural number
RECURSIVE IntStr(_)
IntStr(n) ==
    IF n < 10 THEN <<DigitChars[n + 1]>>
    ELSE IntStr(n \div 10) \o <<DigitChars[(n % 10) + 1]>>

\* "%d" of strftime: the day of the month, zero-padded to two digits
Pad2(n) == IF n < 10 THEN <<"0">> \o IntStr(n) ELSE IntStr(n)

(***************************************************************************)
(* Literal texts of the code.                                              *)
(***************************************************************************)
kw_nothing_works ==
    <<"n","o","t","h","i","n","g"," ","w","o","r","k","s">>
kw_none_work ==
    <<"n","o","n","e"," ","w","o","r","k">>
kw_not_available ==
    <<"n","o","t"," ","a","v","a","i","l","a","b","l","e">>
kw_anything_works ==
    <<"a","n","y","t","h","i","n","g"," ","w","o","r","k","s">>
kw_any_time ==
    <<"a","n","y"," ","t","i","m","e">>
kw_all_work ==
    <<"a","l","l"," ","w","o","r","k">>
kw_tomorrow ==
    <<"t","o","m","o","r","r","o","w">>
kw_monday ==
    <<"m","o","n","d","a","y">>
kw_tuesday ==
    <<"t","u","e","s","d","a","y">>
kw_wednesday ==
    <<"w","e","d","n","e","s","d","a","y">>
kw_thursday ==
    <<"t","h","u","r","s","d","a","y">>
kw_friday ==
    <<"f","r","i","d","a","y">>
kw_next_monday ==
    <<"n","e","x","t"," ","m","o","n","d","a","y">>
kw_next_tuesday ==
    <<"n","e","x","t"," ","t","u","e","s","d","a","y">>
kw_next_wednesday ==
    <<"n","e","x","t"," ","w","e","d","n","e","s","d","a","y">>
kw_next_thursday ==
    <<"n","e","x","t"," ","t","h","u","r","s","d","a","y">>
kw_next_friday ==
    <<"n","e","x","t"," ","f","r","i","d","a","y">>
kw_next_week ==
    <<"n","e","x","t"," ","w","e","e","k">>
kw_two_weeks ==
    <<"t","w","o"," ","w","e","e","k","s">>
kw_2_weeks ==
    <<"2"," ","w","e","e","k","s">>
kw_am ==
    <<"a","m">>
kw_pm ==
    <<"p","m">>
slot_tomorrow_at_3pm ==
    <<"t","o","m","o","r","r","o","w"," ","a","t"," ","3","p","m">>
slot_next_monday_at_10am ==
    <<"n","e","x","t"," ","M","o","n","d","a","y"," ","a","t"," ","1","0","a","m">>
slot_next_wednesday_at_11am ==
    <<"n","e","x","t"," ","W","e","d","n","e","s","d","a","y"," ","a","t"," ","1","1","a","m">>
custom_time_requested ==
    <<"C","u","s","t","o","m"," ","t","i","m","e"," ","r","e","q","u","e","s","t","e","d">>

(***************************************************************************)
(* utils/date_converter.py: DateConverter.                                 *)
(* A date is [year, month, day]; `today` is the date captured by           *)
(* DateConverter.__init__ (only its calendar date is ever used).           *)
(***************************************************************************)
IsLeap(y) == (y % 4 = 0) /\ ((y % 100 # 0) \/ (y % 400 = 0))

DaysInMonth(y, m) ==
    IF m = 2 THEN (IF IsLeap(y) THEN 29 ELSE 28)
    ELSE IF m \in {4, 6, 9, 11} THEN 30 ELSE 31

\* datetime + timedelta(days=1)
NextDay(d) ==
    IF d.day < DaysInMonth(d.year, d.month)
    THEN [d EXCEPT !.day = d.day + 1]
    ELSE IF d.month < 12
         THEN [year |-> d.year, month |-> d.month + 1, day |-> 1]
         ELSE [year |-> d.year + 1, month |-> 1, day |-> 1]

\* datetime + timedelta(days=n), n >= 0
RECURSIVE AddDays(_, _)
AddDays(d, n) == IF n = 0 THEN d ELSE AddDays(NextDay(d), n - 1)

RECURSIVE DaysBeforeMonth(_, _)
DaysBeforeMonth(y, m) ==
    IF m = 1 THEN 0 ELSE DaysBeforeMonth(y, m - 1) + DaysInMonth(y, m - 1)

\* datetime.toordinal(): days since 0001-01-01, that day being 1
ToOrdinal(d) ==
    LET p == d.year - 1
    IN  p * 365 + (p \div 4) - (p \div 100) + (p \div 400)
        + DaysBeforeMonth(d.year, d.month) + d.day

\* datetime.weekday(): 0 = Monday ... 6 = Sunday
Weekday(d) == (ToOrdinal(d) + 6) % 7

MonthNames ==
    << <<"J","a","n","u","a","r","y">>,
       <<"F","e","b","r","u","a","r","y">>,
       <<"M","a","r","c","h">>,
       <<"A","p","r","i","l">>,
       <<"M","a","y">>,
       <<"J","u","n","e">>,
       <<"J","u","l","y">>,
       <<"A","u","g","u","s","t">>,
       <<"S","e","p","t","e","m","b","e","r">>,
       <<"O","c","t","o","b","e","r">>,
       <<"N","o","v","e","m","b","e","r">>,
       <<"D","e","c","e","m","b","e","r">> >>

\* strftime with the day of the month not padded
FormatDateMutNoPad(d) ==
    MonthNames[d.month] \o <<" ">> \o IntStr(d.day) \o <<",", " ">> \o IntStr(d.year)

\* target_date.strftime("%B %d, %Y")
FormatDate(d) ==
    MonthNames[d.month] \o <<" ">> \o Pad2(d.day) \o <<",", " ">> \o IntStr(d.year)

\* DateConverter._get_next_weekday
get_next_weekday(today, weekday) ==
    LET days_ahead == weekday - Weekday(today)
    IN  AddDays(today, IF days_ahead <= 0 THEN days_ahead + 7 ELSE days_ahead)

\* One attempt of the pattern (\d{1,2})\s*(am|pm) at position i with k digits:
\* the position after the match, or 0 when it does not match there.
TimeMatchAt(s, i, k) ==
    IF i + k - 1 > Len(s) \/ \E j \in i..(i + k - 1) : ~IsDigit(s[j])
    THEN 0
    ELSE LET rest == {j \in (i + k)..Len(s) : ~IsSpace(s[j])}
         IN  IF rest = {} THEN 0
             ELSE LET p == CHOOSE j \in rest : \A q \in rest : j <= q
                  IN  IF p + 1 <= Len(s) /\ SubSeq(s, p, p + 1) \in {kw_am, kw_pm}
                      THEN p + 2 ELSE 0

\* re.search(r'(\d{1,2})\s*(am|pm)', s): the leftmost match, two digits tried
\* before one; [found, hour (group 1), period (group 2)].
TimeSearch(s) ==
    LET hits == {i \in 1..Len(s) : TimeMatchAt(s, i, 2) > 0 \/ TimeMatchAt(s, i, 1) > 0}
    IN  IF hits = {} THEN [found |-> FALSE, hour |-> << >>, period |-> << >>]
        ELSE LET i == CHOOSE a \in hits : \A b \in hits : a <= b
                 k == IF TimeMatchAt(s, i, 2) > 0 THEN 2 ELSE 1
                 e == TimeMatchAt(s, i, k)
             IN  [found  |-> TRUE,
                  hour   |-> SubSeq(s, i, i + k - 1),
                  period |-> SubSeq(s, e - 2, e - 1)]

\* the time suffix with pm hours shown on the 24-hour clock
TimeStrMut24h(s) ==
    LET m == TimeSearch(s)
        hour == ParseInt(m.hour)
    IN  IF m.found
        THEN <<" ","a","t"," ">>
             \o IntStr(IF m.period = kw_pm /\ hour # 12 THEN hour + 12 ELSE hour)
             \o <<":","0","0"," ">> \o Upper(m.period)
        ELSE << >>

\* lines 30-44 of convert_relative_date: the time suffix
TimeStr(s) ==
    LET m == TimeSearch(s)
    IN  IF m.found
        THEN <<" ","a","t"," ">> \o IntStr(ParseInt(m.hour)) \o <<":","0","0"," ">>
             \o Upper(m.period)
        ELSE << >>

\* lines 47-75 of convert_relative_date: the target date, or none
TargetDate(today, s) ==
    IF Contains(s, kw_tomorrow)
    THEN [some |-> TRUE, date |-> AddDays(today, 1)]
    ELSE IF Contains(s, kw_next_monday) \/ Contains(s, kw_monday)
    THEN [some |-> TRUE, date |-> get_next_weekday(today, 0)]
    ELSE IF Contains(s, kw_next_tuesday) \/ Contains(s, kw_tuesday)
    THEN [some |-> TRUE, date |-> get_next_weekday(today, 1)]
    ELSE IF Contains(s, kw_next_wednesday) \/ Contains(s, kw_wednesday)
    THEN [some |-> TRUE, date |-> get_next_weekday(today, 2)]
    ELSE IF Contains(s, kw_next_thursday) \/ Contains(s, kw_thursday)
    THEN [some |-> TRUE, date |-> get_next_weekday(today, 3)]
    ELSE IF Contains(s, kw_next_friday) \/ Contains(s, kw_friday)
    THEN [some |-> TRUE, date |-> get_next_weekday(today, 4)]
    ELSE IF Contains(s, kw_next_week)
    THEN [some |-> TRUE, date |-> AddDays(today, 7)]
    ELSE IF Contains(s, kw_two_weeks) \/ Contains(s, kw_2_weeks)
    THEN [some |-> TRUE, date |-> AddDays(today, 14)]
    ELSE [some |-> FALSE, date |-> today]

\* DateConverter.convert_relative_date
convert_relative_date(today, relative_date) ==
    LET s == Strip(Lower(relative_date))
        t == TargetDate(today, s)
    IN  IF t.some THEN FormatDate(t.date) \o TimeStr(s) ELSE s

(***************************************************************************)
(* Python values: Optional[...] is << >> (None) or <<v>>; a dict is a      *)
(* function whose domain is the set of keys present.                       *)
(***************************************************************************)
None == << >>

Some(v) == <<v>>

\* d.get(k, default)
Get(d, k, default) == IF k \in DOMAIN d THEN d[k] ELSE default

\* an assignment that leaves the dict with that key alone
PutMutDropsOthers(d, k, v) == [x \in {k} |-> v]

\* d[k] = v
Put(d, k, v) == [x \in (DOMAIN d) \cup {k} |-> IF x = k THEN v ELSE d[x]]

EmptyDict == [x \in {} |-> ""]

(***************************************************************************)
(* utils/address_validator.py: AddressValidator.validate_address.          *)
(* `geocode` is what self.gmaps.geocode(address) did: it returned a list   *)
(* of results, raised googlemaps ApiError, or raised something else.       *)
(***************************************************************************)
msg_not_found == "Address not found. Please provide a more specific address."

msg_incomplete_components == "Please provide a complete address with street, city, and state."

msg_incomplete_number ==
    "The address seems incomplete. Please provide the full street address including house number."

msg_service_error == "Unable to validate address due to service error. Please try again."

msg_validation_error == "Unable to validate address. Please try again."

\* a component test that wants all of the types on one component
HasComponentMutAll(components, types) ==
    \E i \in 1..Len(components) :
        types \subseteq Get(components[i], "types", {})

HasComponent(components, types) ==
    \E i \in 1..Len(components) :
        Get(components[i], "types", {}) \cap types # {}

validate_address(geocode) ==
    IF geocode.kind = "api_error"
    THEN [is_valid |-> FALSE, address_data |-> None, error_message |-> Some(msg_service_error)]
    ELSE IF geocode.kind = "exception"
    THEN [is_valid |-> FALSE, address_data |-> None, error_message |-> Some(msg_validation_error)]
    ELSE IF geocode.results = << >>
    THEN [is_valid |-> FALSE, address_data |-> None, error_message |-> Some(msg_not_found)]
    ELSE
    LET result            == geocode.results[1]
        components        == Get(result, "address_components", << >>)
        formatted_address == Get(result, "formatted_address", "")
        has_street_number == HasComponent(components, {"street_number"})
        has_route         == HasComponent(components, {"route"})
        has_locality      == HasComponent(components, {"locality", "administrative_area_level_1"})
        geometry          == Get(result, "geometry", EmptyDict)
        location_type     == Get(geometry, "location_type", "")
        is_precise        == location_type \in {"ROOFTOP", "RANGE_INTERPOLATED"}
        has_basic_components == has_route /\ has_locality
    IN  IF ~has_basic_components
        THEN [is_valid |-> FALSE, address_data |-> None,
              error_message |-> Some(msg_incomplete_components)]
        ELSE IF ~is_precise /\ ~has_street_number
        THEN [is_valid |-> FALSE,
              address_data |-> Some([formatted_address |-> formatted_address,
                                     components |-> components,
                                     location_type |-> location_type]),
              error_message |-> Some(msg_incomplete_number)]
        ELSE [is_valid |-> TRUE,
              address_data |-> Some([formatted_address |-> formatted_address,
                                     components |-> components,
                                     location |-> Get(geometry, "location", EmptyDict),
                                     location_type |-> location_type,
                                     place_id |-> Get(result, "place_id", ""),
                                     has_street_number |-> has_street_number,
                                     has_route |-> has_route,
                                     has_locality |-> has_locality]),
              error_message |-> None]

(***************************************************************************)
(* utils/email_sender.py: EmailSender.send_appointment_confirmation.       *)
(* `ses` is what the delivery attempt met: no client was initialised       *)
(* ("no_client"), send_email returned ("sent"), raised botocore            *)
(* ClientError ("client_error") or raised something else ("exception").    *)
(***************************************************************************)
SesOutcomes == {"no_client", "sent", "client_error", "exception"}

\* a sender whose except clauses return True
SendConfirmationMutExceptTrue(patient_data, appointment_time, ses) ==
    IF ses = "no_client" THEN FALSE ELSE TRUE

send_appointment_confirmation(patient_data, appointment_time, ses) ==
    IF ses = "no_client" THEN FALSE
    ELSE IF ses = "sent" THEN TRUE
    ELSE FALSE

(***************************************************************************)
(* bot.py: node configurations.  A NodeConfig is the dict the constructor  *)
(* returns; a prompt is the sequence of the pieces its text is built from  *)
(* (an f-string contributes one piece per literal part and per value).     *)
(***************************************************************************)
Function(name, description, properties, required) ==
    [name |-> name, handler |-> name, description |-> description,
     properties |-> properties, required |-> required]

\* parameters declared {"type": "string"}
StringParams(names) == [n \in names |-> [type |-> "string"]]

collect_chief_complaint_function ==
    Function("collect_chief_complaint",
             "Record the patient's chief complaint or reason for visit",
             StringParams({"chief_complaint"}), {"chief_complaint"})

create_initial_node ==
    [name |-> "initial",
     role_messages |-> << [role |-> "system", content |-> <<
        "You are a friendly medical agent. Your responses will be converted to audio, so avoid special characters. Always use the available functions to progress the conversation naturally.Introduce yourself as Dr. Smith's medical AI assistant, that's it. Do not ask for the patient's name yet" >>] >>,
     task_messages |-> << [role |-> "system", content |-> <<
        "Do not introduce yourself twice. Start by asking how they are doing today, wait for them to respond, then ask for their name" >>] >>,
     functions |-> << Function("collect_name", "Record customer's name",
                               StringParams({"name"}), {"name"}) >>]

create_date_of_birth_node ==
    [name |-> "date_of_birth",
     task_messages |-> << [role |-> "system", content |-> <<
        "Ask about the customer's date of birth." >>] >>,
     functions |-> << Function("collect_date_of_birth", "Record date of birth",
                               [date_of_birth |-> [type |-> "string", format |-> "date"]],
                               {"date_of_birth"}) >>]

create_insurance_node ==
    [name |-> "insurance",
     task_messages |-> << [role |-> "system", content |-> <<
        "Ask about the customer's insurance information." >>] >>,
     functions |-> << Function("collect_insurance", "Record insurance information",
                               StringParams({"payer_name", "payID"}),
                               {"payer_name", "payID"}) >>]

\* a referral node that offers collect_referral alone
ReferralNodeMutNoBranch ==
    [name |-> "referral",
     task_messages |-> << [role |-> "system", content |-> <<
        "Ask about the customer's referral information. wait for the customer to answer whether they have a referral or not; Record the referral name if they say so; if they say they do not have a referral, ask about their chief complaint" >>] >>,
     functions |-> << Function("collect_referral", "Record referral information",
                               StringParams({"referral_name"}), {"referral_name"}) >>]

create_referral_node ==
    [name |-> "referral",
     task_messages |-> << [role |-> "system", content |-> <<
        "Ask about the customer's referral information. wait for the customer to answer whether they have a referral or not; Record the referral name if they say so; if they say they do not have a referral, ask about their chief complaint" >>] >>,
     functions |-> << Function("collect_referral", "Record referral information",
                               StringParams({"referral_name"}), {"referral_name"}),
                      collect_chief_complaint_function >>]

create_chief_complaint_node ==
    [name |-> "chief_complaint",
     task_messages |-> << [role |-> "system", content |-> <<
        "Ask about the reason the customer is calling in today - their chief complaint or main concern." >>] >>,
     functions |-> << collect_chief_complaint_function >>]

create_address_node ==
    [name |-> "address",
     task_messages |-> << [role |-> "system", content |-> <<
        "Ask for the customer's address. Make sure to validate the address and ask for clarification if it seems incomplete or invalid. If the user did not provide city, state or zip code, check with them if it is the same as the validated address from Google Maps API" >>] >>,
     functions |-> << Function("collect_address", "Record the patient's address",
                               StringParams({"address"}), {"address"}) >>]

\* a retry prompt that leaves the reason out
CreateAddressRetryNodeMutNoReason(error_message) ==
    [name |-> "address_retry",
     task_messages |-> << [role |-> "system", content |-> <<
        "The address provided could not be validated. ",
        " Please ask the customer to provide their complete address again, including street number, street name, city, state, and zip code." >>] >>,
     functions |-> << Function("collect_address", "Record the patient's address after retry",
                               StringParams({"address"}), {"address"}) >>]

create_address_retry_node(error_message) ==
    [name |-> "address_retry",
     task_messages |-> << [role |-> "system", content |-> <<
        "The address provided could not be validated. ",
        error_message,
        " Please ask the customer to provide their complete address again, including street number, street name, city, state, and zip code." >>] >>,
     functions |-> << Function("collect_address", "Record the patient's address after retry",
                               StringParams({"address"}), {"address"}) >>]

create_contact_info_node ==
    [name |-> "contact_info",
     task_messages |-> << [role |-> "system", content |-> <<
        "Ask for the customer's contact information. Phone number is required, but email is optional. Make sure to get a valid phone number format." >>] >>,
     functions |-> << Function("collect_contact_info", "Record the patient's contact information",
                               StringParams({"phone_number", "email"}), {"phone_number"}) >>]

create_appointment_scheduling_node ==
    [name |-> "appointment_scheduling",
     task_messages |-> << [role |-> "system", content |-> <<
        "Offer the patient available appointment times with Dr. Smith: tomorrow at 3pm, next Monday at 10am, or next Wednesday at 11am. Ask which time works best for them. If they say nothing works, ask when they are available. If they say anything works, offer tomorrow at 3pm. If they give multiple options, pick the first one mentioned. Convert the selected time to a standardized format for scheduling but do not tell the patient about this process. " >>] >>,
     functions |-> << Function("schedule_appointment",
                               "Schedule an appointment based on patient preference",
                               StringParams({"appointment_choice", "custom_time"}),
                               {"appointment_choice"}),
                      Function("end_quote", "Complete the quote process",
                               StringParams({}), {}) >>]

\* an end node that offers collect_name again
CreateEndNodeMutWithTool ==
    [name |-> "end",
     task_messages |-> << [role |-> "system", content |-> <<
        "Thank the customer for their time and end the conversation. Mention that an email has been sent to confirm their appointment. If available, mention the specific appointment date and time from the converted_appointment in the flow state." >>] >>,
     functions |-> << Function("collect_name", "Record customer's name",
                               StringParams({"name"}), {"name"}) >>,
     post_actions |-> << [type |-> "end_conversation"] >>]

create_end_node ==
    [name |-> "end",
     task_messages |-> << [role |-> "system", content |-> <<
        "Thank the customer for their time and end the conversation. Mention that an email has been sent to confirm their appointment. If available, mention the specific appointment date and time from the converted_appointment in the flow state." >>] >>,
     post_actions |-> << [type |-> "end_conversation"] >>]

\* the functions a node declares; a node without the key declares none
NodeFunctions(node) == Get(node, "functions", << >>)

\* the names of the tools a node declares
ToolNames(node) == {NodeFunctions(node)[i].name : i \in 1..Len(NodeFunctions(node))}

\* the declared function of that name
ToolOf(node, tool) ==
    LET fs == NodeFunctions(node)
    IN  fs[CHOOSE i \in 1..Len(fs) : fs[i].name = tool]

(***************************************************************************)
(* bot.py: function handlers.  A handler maps its arguments and the        *)
(* session state to what the call did: it raised (a KeyError on a missing  *)
(* argument) or returned (result, next_node), and the state it left.       *)
(***************************************************************************)
Returned(st, result, next_node) ==
    [raised |-> FALSE, state |-> st, result |-> result, next_node |-> Some(next_node)]

\* args[k] on a missing key: KeyError, before the handler wrote anything
Raised(st) ==
    [raised |-> TRUE, state |-> st, result |-> EmptyDict, next_node |-> None]

collect_name(args, st) ==
    IF "name" \notin DOMAIN args THEN Raised(st)
    ELSE Returned(Put(st, "name", args["name"]),
                  [name |-> args["name"]],
                  create_date_of_birth_node)

collect_date_of_birth(args, st) ==
    IF "date_of_birth" \notin DOMAIN args THEN Raised(st)
    ELSE Returned(Put(st, "date_of_birth", args["date_of_birth"]),
                  [date_of_birth |-> args["date_of_birth"]],
                  create_insurance_node)

collect_insurance(args, st) ==
    IF "payer_name" \notin DOMAIN args \/ "payID" \notin DOMAIN args THEN Raised(st)
    ELSE Returned(Put(Put(st, "payer_name", args["payer_name"]), "payID", args["payID"]),
                  [payer_name |-> args["payer_name"], payID |-> args["payID"]],
                  create_referral_node)

collect_referral(args, st) ==
    IF "referral" \notin DOMAIN args THEN Raised(st)
    ELSE Returned(Put(st, "referral_doctor", args["referral"]),
                  [referral |-> args["referral"]],
                  create_chief_complaint_node)

collect_chief_complaint(args, st) ==
    IF "chief_complaint" \notin DOMAIN args THEN Raised(st)
    ELSE Returned(Put(st, "chief_complaint", args["chief_complaint"]),
                  [chief_complaint |-> args["chief_complaint"]],
                  create_address_node)

\* a valid branch that clears the error of the earlier attempts
AddressValidBranchMutClearsError(address, st, v) ==
    LET address_data      == v.address_data[1]
        formatted_address == Get(address_data, "formatted_address", address)
    IN  Returned(Put(Put(Put(st, "address", formatted_address), "address_data", address_data),
                     "address_validation_error", ""),
                 [address |-> formatted_address],
                 create_contact_info_node)

\* the valid branch storing what the caller said
AddressValidBranchMutRaw(address, st, v) ==
    Returned(Put(Put(st, "address", address), "address_data", v.address_data[1]),
             [address |-> address],
             create_contact_info_node)

\* collect_address, the branch `if is_valid` (lines 162-170)
address_valid_branch(address, st, v) ==
    LET address_data      == v.address_data[1]
        formatted_address == Get(address_data, "formatted_address", address)
    IN  Returned(Put(Put(st, "address", formatted_address), "address_data", address_data),
                 [address |-> formatted_address],
                 create_contact_info_node)

\* an invalid branch that gives up on the second invalid address
AddressInvalidBranchMutGivesUp(address, st, v) ==
    IF "address_validation_error" \in DOMAIN st
    THEN Returned(Put(st, "address", address), [address |-> address],
                  create_contact_info_node)
    ELSE Returned(Put(st, "address_validation_error", v.error_message[1]),
                  [address |-> ""],
                  create_address_retry_node(v.error_message[1]))

\* the invalid branch asking again from the plain address node
AddressInvalidBranchMutSameNode(address, st, v) ==
    Returned(Put(st, "address_validation_error", v.error_message[1]),
             [address |-> ""],
             create_address_node)

\* collect_address, the branch `else` (lines 172-179)
address_invalid_branch(address, st, v) ==
    LET error_message == v.error_message[1]
    IN  Returned(Put(st, "address_validation_error", error_message),
                 [address |-> ""],
                 create_address_retry_node(error_message))

\* the except branch asking again instead of accepting the address
AddressExceptBranchMutRetry(address, st) ==
    Returned(st, [address |-> ""], create_address_retry_node(msg_validation_error))

\* collect_address, the branch `except Exception` (lines 181-187)
address_except_branch(address, st) ==
    Returned(Put(st, "address", address),
             [address |-> address],
             create_contact_info_node)

\* `call` is what address_validator.validate_address(address) did inside the
\* try block: it raised, or it returned the tuple call.value.
collect_address(args, st, call) ==
    IF "address" \notin DOMAIN args THEN Raised(st)
    ELSE IF call.raised THEN address_except_branch(args["address"], st)
    ELSE IF call.value.is_valid THEN address_valid_branch(args["address"], st, call.value)
    ELSE address_invalid_branch(args["address"], st, call.value)

\* collect_contact_info reading the email with args["email"]
CollectContactInfoMutNoDefault(args, st) ==
    IF "phone_number" \notin DOMAIN args \/ "email" \notin DOMAIN args THEN Raised(st)
    ELSE Returned(Put(Put(st, "phone_number", args["phone_number"]), "email", args["email"]),
                  [phone_number |-> args["phone_number"], email |-> args["email"]],
                  create_appointment_scheduling_node)

collect_contact_info(args, st) ==
    IF "phone_number" \notin DOMAIN args THEN Raised(st)
    ELSE LET email == Get(args, "email", "")
         IN  Returned(Put(Put(st, "phone_number", args["phone_number"]), "email", email),
                      [phone_number |-> args["phone_number"], email |-> email],
                      create_appointment_scheduling_node)

\* line 213 without .lower()
AppointmentChoiceOfMutCase(args) == Get(args, "appointment_choice", << >>)

\* schedule_appointment, line 213
appointment_choice_of(args) == Lower(Get(args, "appointment_choice", << >>))

\* schedule_appointment, the condition of line 221
says_nothing_works(appointment_choice) ==
    \/ Contains(appointment_choice, kw_nothing_works)
    \/ Contains(appointment_choice, kw_none_work)
    \/ Contains(appointment_choice, kw_not_available)

\* lines 219-242 with the anything-works phrases tried before the nothing-works ones
SelectAppointmentMutAnythingFirst(appointment_choice, custom_time) ==
    IF \/ Contains(appointment_choice, kw_anything_works)
       \/ Contains(appointment_choice, kw_any_time)
       \/ Contains(appointment_choice, kw_all_work)
    THEN slot_tomorrow_at_3pm
    ELSE IF says_nothing_works(appointment_choice)
    THEN (IF custom_time # << >> THEN custom_time ELSE custom_time_requested)
    ELSE IF Contains(appointment_choice, kw_tomorrow) /\ Contains(appointment_choice, kw_monday)
    THEN slot_tomorrow_at_3pm
    ELSE IF Contains(appointment_choice, kw_monday) /\ Contains(appointment_choice, kw_wednesday)
    THEN slot_next_monday_at_10am
    ELSE IF Contains(appointment_choice, kw_tomorrow)
    THEN slot_tomorrow_at_3pm
    ELSE IF Contains(appointment_choice, kw_monday)
    THEN slot_next_monday_at_10am
    ELSE IF Contains(appointment_choice, kw_wednesday)
    THEN slot_next_wednesday_at_11am
    ELSE slot_tomorrow_at_3pm

\* lines 219-242 with the final else asking for a custom time
SelectAppointmentMutDefault(appointment_choice, custom_time) ==
    IF says_nothing_works(appointment_choice)
    THEN (IF custom_time # << >> THEN custom_time ELSE custom_time_requested)
    ELSE IF \/ Contains(appointment_choice, kw_anything_works)
            \/ Contains(appointment_choice, kw_any_time)
            \/ Contains(appointment_choice, kw_all_work)
    THEN slot_tomorrow_at_3pm
    ELSE IF Contains(appointment_choice, kw_tomorrow) /\ Contains(appointment_choice, kw_monday)
    THEN slot_tomorrow_at_3pm
    ELSE IF Contains(appointment_choice, kw_monday) /\ Contains(appointment_choice, kw_wednesday)
    THEN slot_next_monday_at_10am
    ELSE IF Contains(appointment_choice, kw_tomorrow)
    THEN slot_tomorrow_at_3pm
    ELSE IF Contains(appointment_choice, kw_monday)
    THEN slot_next_monday_at_10am
    ELSE IF Contains(appointment_choice, kw_wednesday)
    THEN slot_next_wednesday_at_11am
    ELSE custom_time_requested

\* schedule_appointment, lines 219-242: the selected appointment
select_appointment(appointment_choice, custom_time) ==
    IF says_nothing_works(appointment_choice)
    THEN (IF custom_time # << >> THEN custom_time ELSE custom_time_requested)
    ELSE IF \/ Contains(appointment_choice, kw_anything_works)
            \/ Contains(appointment_choice, kw_any_time)
            \/ Contains(appointment_choice, kw_all_work)
    THEN slot_tomorrow_at_3pm
    ELSE IF Contains(appointment_choice, kw_tomorrow) /\ Contains(appointment_choice, kw_monday)
    THEN slot_tomorrow_at_3pm
    ELSE IF Contains(appointment_choice, kw_monday) /\ Contains(appointment_choice, kw_wednesday)
    THEN slot_next_monday_at_10am
    ELSE IF Contains(appointment_choice, kw_tomorrow)
    THEN slot_tomorrow_at_3pm
    ELSE IF Contains(appointment_choice, kw_monday)
    THEN slot_next_monday_at_10am
    ELSE IF Contains(appointment_choice, kw_wednesday)
    THEN slot_next_wednesday_at_11am
    ELSE slot_tomorrow_at_3pm

\* an except branch that stores no fallback
ConvertedAppointmentMutNoFallback(today, selected_appointment, conversion) ==
    IF conversion = "raises" THEN << >>
    ELSE convert_relative_date(today, selected_appointment)

\* schedule_appointment, lines 245-263: the converted appointment; `conversion`
\* is what date_converter.convert_relative_date did: "returns" or "raises".
converted_appointment_of(today, selected_appointment, conversion) ==
    IF conversion = "raises" THEN selected_appointment
    ELSE convert_relative_date(today, selected_appointment)

\* schedule_appointment, lines 267-274
patient_data_of(st) ==
    [name            |-> Get(st, "name", "Unknown"),
     date_of_birth   |-> Get(st, "date_of_birth", "Not provided"),
     address         |-> Get(st, "address", "Not provided"),
     phone_number    |-> Get(st, "phone_number", "Not provided"),
     payer_name      |-> Get(st, "payer_name", "Not provided"),
     chief_complaint |-> Get(st, "chief_complaint", "Not provided")]

\* lines 266-283 without the try/except around the sender call
EmailAttemptMutEscapes(st, appointment_for_email, delivery) ==
    [patient_data     |-> patient_data_of(st),
     appointment_time |-> appointment_for_email,
     delivery         |-> delivery,
     email_sent       |-> delivery = "sent",
     escaped          |-> delivery = "raises"]

\* schedule_appointment, lines 266-283: the confirmation attempt; `delivery` is
\* a SES outcome, or "raises" when the sender call itself raised.
email_attempt(st, appointment_for_email, delivery) ==
    [patient_data     |-> patient_data_of(st),
     appointment_time |-> appointment_for_email,
     delivery         |-> delivery,
     email_sent       |-> IF delivery = "raises" THEN FALSE
                          ELSE send_appointment_confirmation(
                                   patient_data_of(st), appointment_for_email, delivery),
     escaped          |-> FALSE]

\* a schedule_appointment that offers the slots again when no email went out
ScheduleNextNodeMutRetry(email) ==
    IF email.email_sent THEN create_end_node ELSE create_appointment_scheduling_node

\* schedule_appointment, line 287
schedule_next_node(email) == create_end_node

schedule_appointment(args, st, today, conversion, delivery) ==
    LET appointment_choice   == appointment_choice_of(args)
        custom_time          == Get(args, "custom_time", << >>)
        selected_appointment == select_appointment(appointment_choice, custom_time)
        st1 == IF says_nothing_works(appointment_choice)
               THEN Put(st, "custom_time", custom_time) ELSE st
        converted_appointment ==
            converted_appointment_of(today, selected_appointment, conversion)
        st2 == Put(Put(Put(st1, "selected_appointment", selected_appointment),
                       "converted_appointment", converted_appointment),
                   "custom_time", custom_time)
        email == email_attempt(st2, converted_appointment, delivery)
    IN  IF email.escaped
        THEN [raised |-> TRUE, state |-> st2, result |-> EmptyDict, next_node |-> None,
              email |-> email]
        ELSE [raised |-> FALSE, state |-> st2,
              result |-> [selected_appointment |-> selected_appointment,
                          custom_time |-> custom_time],
              next_node |-> Some(schedule_next_node(email)),
              email |-> email]

\* an end_quote that books the first offered slot on its way out
EndQuoteMutSchedules(args, st) ==
    Returned(Put(st, "selected_appointment", slot_tomorrow_at_3pm),
             [status |-> "completed"], create_end_node)

end_quote(args, st) ==
    Returned(st, [status |-> "completed"], create_end_node)

(***************************************************************************)
(* Inputs of one conversation.                                             *)
(***************************************************************************)
choice_tomorrow_works ==
    <<"t","o","m","o","r","r","o","w"," ","w","o","r","k","s"," ","f","o","r"," ","m","e">>
choice_monday_is_good ==
    <<"M","o","n","d","a","y"," ","i","s"," ","g","o","o","d">>
choice_wednesday_please ==
    <<"W","e","d","n","e","s","d","a","y"," ","p","l","e","a","s","e">>
choice_tomorrow_or_monday ==
    <<"t","o","m","o","r","r","o","w"," ","o","r"," ","M","o","n","d","a","y">>
choice_monday_or_wednesday ==
    <<"M","o","n","d","a","y"," ","o","r"," ","W","e","d","n","e","s","d","a","y">>
choice_wednesday_or_tomorrow ==
    <<"W","E","D","N","E","S","D","A","Y"," ","o","r"," ","T","o","m","o","r","r","o","w">>
choice_anything_works ==
    <<"a","n","y","t","h","i","n","g"," ","w","o","r","k","s">>
choice_any_time ==
    <<"A","n","y"," ","t","i","m","e"," ","i","s"," ","f","i","n","e">>
choice_all_work ==
    <<"t","h","e","y"," ","a","l","l"," ","w","o","r","k">>
choice_none_of_those_work ==
    <<"n","o","n","e"," ","o","f"," ","t","h","o","s","e"," ","w","o","r","k">>
choice_nothing_works ==
    <<"N","o","t","h","i","n","g"," ","w","o","r","k","s"," ","f","o","r"," ","m","e">>
choice_free_friday ==
    <<"I","'","m"," ","f","r","e","e"," ","F","r","i","d","a","y"," ","a","t"," ","2","p","m">>
choice_not_available_any_time ==
    <<"I","'","m"," ","n","o","t"," ","a","v","a","i","l","a","b","l","e"," ","a","n","y"," ","t","i","m","e"," ","t","h","i","s"," ","w","e","e","k">>
choice_any_time_monday_or_wednesday ==
    <<"a","n","y"," ","t","i","m","e"," ","M","o","n","d","a","y"," ","o","r"," ","W","e","d","n","e","s","d","a","y">>
choice_none_work_tomorrow ==
    <<"n","o","n","e"," ","w","o","r","k",","," ","n","o","t"," ","t","o","m","o","r","r","o","w"," ","a","n","d"," ","n","o","t"," ","M","o","n","d","a","y">>
time_friday_at_2pm ==
    <<"F","r","i","d","a","y"," ","a","t"," ","2","p","m">>
choice_all_three ==
    <<"T","o","m","o","r","r","o","w",","," ","M","o","n","d","a","y"," ","o","r"," ","W","e","d","n","e","s","d","a","y">>

AppointmentChoices ==
    { choice_tomorrow_works, choice_monday_is_good, choice_wednesday_please,
      choice_tomorrow_or_monday, choice_monday_or_wednesday,
      choice_wednesday_or_tomorrow, choice_all_three,
      choice_anything_works, choice_any_time, choice_all_work,
      choice_none_of_those_work, choice_nothing_works, choice_free_friday,
      choice_not_available_any_time, choice_any_time_monday_or_wednesday,
      choice_none_work_tomorrow, << >> }

CustomTimes == { << >>, time_friday_at_2pm }

\* the choices that are also tried together with a custom_time argument
CustomTimeChoices == { choice_nothing_works, choice_none_work_tomorrow, choice_free_friday }

\* the dates DateConverter.__init__ may capture
TodayChoices ==
    { [year |-> 2025, month |-> 1,  day |-> 16],
      [year |-> 2024, month |-> 12, day |-> 30] }

Component(types) == [long_name |-> "x", types |-> types]

GeocodeResult(components, location_type, formatted_address) ==
    [address_components |-> components,
     formatted_address  |-> formatted_address,
     geometry           |-> [location_type |-> location_type,
                             location |-> [lat |-> 40, lng |-> -74]],
     place_id           |-> "ChIJ"]

street_number == Component({"street_number"})

route == Component({"route"})

locality == Component({"locality", "political"})

admin_area == Component({"administrative_area_level_1", "political"})

\* what self.gmaps.geocode(address) may do
GeocodeOutcomes ==
    { [kind |-> "api_error"],
      [kind |-> "exception"],
      [kind |-> "results", results |-> << >>],
      [kind |-> "results", results |->
          << GeocodeResult(<<street_number, route, locality>>, "ROOFTOP",
                           "123 Main St, Springfield, IL 62701, USA"),
             GeocodeResult(<<locality>>, "APPROXIMATE", "Springfield, IL, USA") >>] }

\* what the call address_validator.validate_address(address) may do inside the
\* try block of collect_address: return validate_address's tuple, or raise
ValidatorCalls ==
    { [raised |-> FALSE, geocode |-> Some(g), value |-> Some(validate_address(g))]
        : g \in GeocodeOutcomes }
    \cup { [raised |-> TRUE, geocode |-> None, value |-> None] }

\* what date_converter.convert_relative_date may do
Conversions == {"returns", "raises"}

\* what email_sender.send_appointment_confirmation may do
Deliveries == SesOutcomes \cup {"raises"}

\* the arguments a tool call may carry
ArgChoices(tool) ==
    IF tool = "collect_name"
    THEN { [name |-> "Ada Lovelace"], EmptyDict }
    ELSE IF tool = "collect_date_of_birth"
    THEN { [date_of_birth |-> "1990-01-01"], EmptyDict }
    ELSE IF tool = "collect_insurance"
    THEN { [payer_name |-> "Aetna", payID |-> "W123"], [payer_name |-> "Aetna"],
           [payID |-> "W123"] }
    ELSE IF tool = "collect_referral"
    THEN { [referral_name |-> "Dr. Jones"], [referral |-> "Dr. Jones"], EmptyDict }
    ELSE IF tool = "collect_chief_complaint"
    THEN { [chief_complaint |-> "headache"], EmptyDict }
    ELSE IF tool = "collect_address"
    THEN { [address |-> "123 main street springfield"], EmptyDict }
    ELSE IF tool = "collect_contact_info"
    THEN { [phone_number |-> "555-0100", email |-> "ada@example.com"],
           [phone_number |-> "555-0100"], [email |-> "ada@example.com"] }
    ELSE IF tool = "schedule_appointment"
    THEN { [appointment_choice |-> c] : c \in AppointmentChoices }
         \cup { [appointment_choice |-> c, custom_time |-> t]
                  : c \in CustomTimeChoices, t \in CustomTimes }
         \cup { [custom_time |-> time_friday_at_2pm] }
    ELSE { EmptyDict }

\* the arguments that are tried with every outcome of both collaborators; the
\* others are tried with both succeeding and with both raising
EveryOutcomeArgs ==
    { [appointment_choice |-> choice_tomorrow_or_monday],
      [appointment_choice |-> choice_nothing_works, custom_time |-> time_friday_at_2pm],
      [appointment_choice |-> choice_free_friday] }

ScheduleInputs ==
    { <<args, "returns", "sent">> : args \in ArgChoices("schedule_appointment") }
    \cup { <<args, "raises", "raises">> : args \in ArgChoices("schedule_appointment") }
    \cup { <<args, c, d>> : args \in EveryOutcomeArgs, c \in Conversions, d \in Deliveries }

Tools ==
    { "collect_name", "collect_date_of_birth", "collect_insurance", "collect_referral",
      "collect_chief_complaint", "collect_address", "collect_contact_info",
      "schedule_appointment", "end_quote" }

(***************************************************************************)
(* The conversation: run_bot's flow manager and event handlers.            *)
(***************************************************************************)
VARIABLES
    today,          \* date_converter.today
    current_node,   \* the flow manager's current NodeConfig
    state,          \* flow_manager.state, the session state
    task_cancelled, \* task.cancel() was called
    history,        \* names of the nodes entered, in order
    last,           \* the latest tool call: what was asked and what it did
    verdicts,       \* what the validator did on each collect_address call so far:
                    \* "valid", "invalid" or "raised"
    clean,          \* [ok, tools]: ok while every call so far was of a declared
                    \* tool, called for the first time, with arguments its schema
                    \* allows, and every address was judged valid; tools are the
                    \* tools called so far while ok
    call_already_forwarded, \* run_bot's flag of that name
    dialin_log,     \* what each dial-in event so far did
    running,        \* the handler coroutine that has started and not yet returned:
                    \* None, or its call, the writes it has still to make and
                    \* whether it is suspended at an await
    clock           \* the date datetime.now() would give

vars == <<today, current_node, state, task_cancelled, history, last, verdicts, clean,
          call_already_forwarded, dialin_log, running, clock>>

\* the telephony side of run_bot
telephony == <<call_already_forwarded, dialin_log>>

\* the event loop's running handler and the wall clock
runtime == <<running, clock>>

\* the event loop is free for another coroutine: no handler has started, or the
\* one that has is suspended at an await
LoopFree == IF running = None THEN TRUE ELSE running[1].suspended

\* the flow manager before initialize()
NoNode == [name |-> "uninitialized"]

NoCall ==
    [tool |-> "none", args |-> EmptyDict, node |-> "uninitialized", outcome |-> "none",
     result |-> EmptyDict, validator |-> None, conversion |-> "none", email |-> None]

Init ==
    /\ today \in TodayChoices
    /\ current_node = NoNode
    /\ state = EmptyDict
    /\ task_cancelled = FALSE
    /\ history = << >>
    /\ last = NoCall
    /\ verdicts = << >>
    /\ clean = [ok |-> TRUE, tools |-> {}]
    /\ call_already_forwarded = FALSE
    /\ dialin_log = << >>
    /\ running = None
    /\ clock = today

\* the coroutine of on_first_participant_joined suspended at the await numbered
\* `at`: 1 is capture_participant_transcription (line 698), 2 is queue_frames
\* (line 699); 0 is the handler not yet called, 3 its end
Joining(at) ==
    Some([tool |-> "on_first_participant_joined", args |-> EmptyDict, out |-> EmptyDict,
          conversion |-> "none", writes |-> << >>, done |-> at, suspended |-> TRUE])

\* the first participant has joined: the handler of the event was called
Joined ==
    IF current_node # NoNode \/ running = None
    THEN current_node # NoNode
    ELSE running[1].tool = "on_first_participant_joined"

\* on_first_participant_joined, lines 695-700: the handler awaits
\* capture_participant_transcription, then queue_frames, then
\* flow_manager.initialize(create_initial_node()).  Each of the first two awaits
\* may give the event loop to other callbacks or return at once, so one step
\* takes the handler from where it stands (`from`) to a later await or to its
\* end (`to`); initialize() is its last statement.
OnFirstParticipantJoined ==
    \E from \in 0..2, to \in 1..3 :
        /\ from < to
        /\ current_node = NoNode
        /\ IF from = 0 THEN running = None /\ ~task_cancelled
                       ELSE running = Joining(from)
        /\ IF to = 3
           THEN /\ current_node' = create_initial_node
                /\ history' = <<create_initial_node.name>>
                /\ running' = None
           ELSE /\ running' = Joining(to)
                /\ UNCHANGED <<current_node, history>>
        /\ UNCHANGED <<today, state, task_cancelled, last, verdicts, clean, telephony, clock>>

\* on_participant_left that only logs
OnParticipantLeftMutLogOnly ==
    /\ Joined
    /\ ~task_cancelled
    /\ LoopFree
    /\ UNCHANGED vars

\* on_participant_left: task.cancel()
OnParticipantLeft ==
    /\ Joined
    /\ ~task_cancelled
    /\ LoopFree
    /\ task_cancelled' = TRUE
    /\ UNCHANGED <<today, current_node, state, history, last, verdicts, clean, telephony,
                   runtime>>

Spoiled == [ok |-> FALSE, tools |-> {}]

\* the arguments of a call fit the declared schema of the function
Conforms(function, args) ==
    /\ DOMAIN args \subseteq DOMAIN function.properties
    /\ function.required \subseteq DOMAIN args

\* the model may call `tool` now: the flow runs and the current node declares it
CanInvoke(tool) ==
    /\ current_node # NoNode
    /\ ~task_cancelled
    /\ running = None
    /\ tool \in ToolNames(current_node)
    /\ ToolOf(current_node, tool).handler = tool

Retries == Cardinality({i \in 1..Len(history) : history[i] = "address_retry"})

\* the flow manager's transition after a handler ran: the state is what the handler
\* left, and the node it returned (if it returned) becomes the current node
Dispatch(tool, args, out, verdict, validator, conversion) ==
    /\ state' = out.state
    /\ current_node' = IF out.raised THEN current_node ELSE out.next_node[1]
    /\ history' = IF out.raised THEN history ELSE Append(history, out.next_node[1].name)
    /\ last' = [tool |-> tool, args |-> args, node |-> current_node.name,
                outcome |-> IF out.raised THEN "raised" ELSE "returned",
                result |-> out.result, validator |-> validator,
                conversion |-> conversion,
                email |-> IF "email" \in DOMAIN out THEN Some(out.email) ELSE None]
    /\ clean' = IF /\ clean.ok
                    /\ tool \notin clean.tools
                    /\ Conforms(ToolOf(current_node, tool), args)
                    /\ verdict \in {"none", "valid"}
                 THEN [ok |-> TRUE, tools |-> clean.tools \cup {tool}]
                 ELSE Spoiled
    /\ verdicts' = IF verdict = "none" THEN verdicts ELSE Append(verdicts, verdict)
    /\ running' = None
    /\ UNCHANGED <<today, task_cancelled, telephony, clock>>

CollectName ==
    /\ CanInvoke("collect_name")
    /\ \E args \in ArgChoices("collect_name") :
         Dispatch("collect_name", args, collect_name(args, state), "none", None, "none")

CollectDateOfBirth ==
    /\ CanInvoke("collect_date_of_birth")
    /\ \E args \in ArgChoices("collect_date_of_birth") :
         Dispatch("collect_date_of_birth", args, collect_date_of_birth(args, state),
                  "none", None, "none")

CollectInsurance ==
    /\ CanInvoke("collect_insurance")
    /\ \E args \in ArgChoices("collect_insurance") :
         Dispatch("collect_insurance", args, collect_insurance(args, state),
                  "none", None, "none")

CollectReferral ==
    /\ CanInvoke("collect_referral")
    /\ \E args \in ArgChoices("collect_referral") :
         Dispatch("collect_referral", args, collect_referral(args, state),
                  "none", None, "none")

CollectChiefComplaint ==
    /\ CanInvoke("collect_chief_complaint")
    /\ \E args \in ArgChoices("collect_chief_complaint") :
         Dispatch("collect_chief_complaint", args, collect_chief_complaint(args, state),
                  "none", None, "none")

CollectAddress ==
    /\ CanInvoke("collect_address")
    /\ \E args \in ArgChoices("collect_address"), call \in ValidatorCalls :
         LET c   == [raised |-> call.raised,
                     value  |-> IF call.raised THEN None ELSE call.value[1]]
             out == collect_address(args, state, c)
             verdict == IF out.raised THEN "none"
                        ELSE IF call.raised THEN "raised"
                        ELSE IF call.value[1].is_valid THEN "valid" ELSE "invalid"
         IN  /\ verdict = "invalid" => Retries < MaxRetries
             /\ Dispatch("collect_address", args, out, verdict,
                         IF out.raised THEN None ELSE Some(call), "none")

CollectContactInfo ==
    /\ CanInvoke("collect_contact_info")
    /\ \E args \in ArgChoices("collect_contact_info") :
         Dispatch("collect_contact_info", args, collect_contact_info(args, state),
                  "none", None, "none")

ScheduleAppointment ==
    /\ CanInvoke("schedule_appointment")
    /\ \E in \in ScheduleInputs :
         Dispatch("schedule_appointment", in[1],
                  schedule_appointment(in[1], state, today, in[2], in[3]),
                  "none", None, in[2])

EndQuote ==
    /\ CanInvoke("end_quote")
    /\ \E args \in ArgChoices("end_quote") :
         Dispatch("end_quote", args, end_quote(args, state), "none", None, "none")

\* a call of a tool the current node does not declare: rejected, nothing changes
RejectUndeclared ==
    /\ current_node # NoNode
    /\ ~task_cancelled
    /\ running = None
    /\ \E tool \in Tools \ ToolNames(current_node) :
         /\ last' = [NoCall EXCEPT !.tool = tool, !.node = current_node.name,
                                   !.outcome = "rejected"]
         /\ clean' = Spoiled
         /\ UNCHANGED <<today, current_node, state, task_cancelled, history, verdicts,
                         telephony, runtime>>

Next ==
    \/ OnFirstParticipantJoined
    \/ OnParticipantLeft
    \/ CollectName
    \/ CollectDateOfBirth
    \/ CollectInsurance
    \/ CollectReferral
    \/ CollectChiefComplaint
    \/ CollectAddress
    \/ CollectContactInfo
    \/ ScheduleAppointment
    \/ EndQuote
    \/ RejectUndeclared

Spec == Init /\ [][Next]_vars

(***************************************************************************)
(* The date converter on its own: calls of DateConverter's methods and of  *)
(* schedule_appointment's conversion step on a converter whose `today` is  *)
(* fixed.  The call is recorded in `last`; the conversation does not move. *)
(* The converter keeps nothing between calls but `today`, so a behaviour   *)
(* makes one call.                                                         *)
(***************************************************************************)
\* the days after the first one that `today` ranges over
TodaySpan == 6

\* Monday 2025-01-13 and the TodaySpan days after it (every day of the week), a
\* Friday before a leap day and a Friday before the turn of the year
ConverterTodays ==
    { AddDays([year |-> 2025, month |-> 1, day |-> 13], k) : k \in 0..TodaySpan }
    \cup { [year |-> 2024, month |-> 2, day |-> 23],
           [year |-> 2025, month |-> 12, day |-> 26] }

\* a str argument, and an argument that is no str (it has no .lower())
PyStr(chars) == [is_str |-> TRUE, chars |-> chars]

NotAStr == [is_str |-> FALSE, chars |-> << >>]

\* weekday() numbers 0..6 to the names of the days, Monday first
WeekdayNames ==
    << kw_monday, kw_tuesday, kw_wednesday, kw_thursday, kw_friday,
       <<"s","a","t","u","r","d","a","y">>, <<"s","u","n","d","a","y">> >>

\* a weekday phrase: the name, capitalized or not, with or without "next "
WeekdayPhrases(weekday) ==
    LET name == WeekdayNames[weekday + 1]
        Name == UpperChar(name[1]) \o Tail(name)
    IN  { name, Name, <<"n","e","x","t"," ">> \o name, <<"n","e","x","t"," ">> \o Name }

\* the date keywords that are tried with a clock time
TimedKeywords ==
    { kw_tomorrow, kw_next_monday, kw_friday, kw_next_week, kw_two_weeks, kw_2_weeks }

\* how am and pm are written in a phrase
PeriodTexts == { kw_am, kw_pm, <<"A","M">>, <<"P","M">> }

\* "<keyword> at <hour><gap><period>"
TimedPhrase(keyword, hour, gap, period) ==
    keyword \o <<" ","a","t"," ">> \o IntStr(hour) \o gap \o period

TimedPhrases ==
    { TimedPhrase(k, h, g, p) :
        k \in TimedKeywords, h \in 1..12, g \in { << >>, <<" ">>, <<"\f">> },
        p \in PeriodTexts }

\* the phrases tried: weekday phrases, single keywords, phrases with a clock
\* time, phrases with two date keywords, and phrases with no date keyword
\* (test_date_converter.py, lines 53-56, and the same in mixed case, with
\* whitespace around or with letters beyond A-Z)
ConverterPhrases ==
    UNION { WeekdayPhrases(w) : w \in 0..6 }
    \cup { kw_tomorrow, kw_next_week, kw_two_weeks, kw_2_weeks,
           <<"T","o","m","o","r","r","o","w">>,
           <<" ","N","e","x","t"," ","W","e","e","k"," ">> }
    \cup TimedPhrases
    \cup { <<"m","o","n","d","a","y"," ","n","e","x","t"," ","w","e","e","k">>,
           <<"f","r","i","d","a","y"," ","i","n"," ","t","w","o"," ","w","e","e","k","s">>,
           <<"n","e","x","t"," ","w","e","e","k"," ","o","r"," ","i","n"," ","t","w","o"," ","w","e","e","k","s">>,
           <<"t","o","m","o","r","r","o","w"," ","o","r"," ","n","e","x","t"," ","w","e","e","k">> }
    \cup { <<"3","p","m">>,
           <<"i","n","v","a","l","i","d"," ","d","a","t","e"," ","s","t","r","i","n","g">>,
           << >>,
           <<" ","3","P","M"," ">>,
           <<"\f","3","p","m"," ">>,
           <<"É","T","É">>,
           <<"Ɓ">>,
           <<"I","n","v","a","l","i","d"," ","D","a","t","e"," ","S","t","r","i","n","g">> }

ConverterInputs == { PyStr(p) : p \in ConverterPhrases } \cup { NotAStr }

\* convert_relative_date, lines 84-86: the except branch returns its argument
convert_relative_date_except(relative_date) ==
    [raised |-> FALSE, value |-> relative_date]

\* a converter whose try block has no except branch
ConvertCallMutNoExcept(today_, relative_date) ==
    IF relative_date.is_str
    THEN [raised |-> FALSE,
          value  |-> PyStr(convert_relative_date(today_, relative_date.chars))]
    ELSE [raised |-> TRUE, value |-> relative_date]

\* a call of convert_relative_date with any argument: for a str the try block
\* runs to its return; for anything else line 27 raises inside the try block
convert_relative_date_call(today_, relative_date) ==
    IF relative_date.is_str
    THEN [raised |-> FALSE,
          value  |-> PyStr(convert_relative_date(today_, relative_date.chars))]
    ELSE convert_relative_date_except(relative_date)

DateInit ==
    /\ today \in ConverterTodays
    /\ current_node = NoNode
    /\ state = EmptyDict
    /\ task_cancelled = FALSE
    /\ history = << >>
    /\ last = NoCall
    /\ verdicts = << >>
    /\ clean = [ok |-> TRUE, tools |-> {}]
    /\ call_already_forwarded = FALSE
    /\ dialin_log = << >>
    /\ running = None
    /\ clock = today

\* what a converter call leaves unchanged
conversation ==
    <<today, current_node, state, task_cancelled, history, verdicts, clean, running, clock>>

\* date_converter._get_next_weekday(weekday)
GetNextWeekday ==
    \E weekday \in 0..6 :
        /\ last = NoCall
        /\ last' = [NoCall EXCEPT !.tool = "_get_next_weekday",
                                  !.args = [weekday |-> weekday],
                                  !.outcome = "returned",
                                  !.result = [value |-> get_next_weekday(today, weekday)]]
        /\ UNCHANGED <<conversation, telephony>>

\* date_converter.convert_relative_date(relative_date)
ConvertRelativeDate ==
    \E relative_date \in ConverterInputs :
        LET out == convert_relative_date_call(today, relative_date)
        IN  /\ last = NoCall
            /\ last' = [NoCall EXCEPT !.tool = "convert_relative_date",
                                      !.args = [relative_date |-> relative_date],
                                      !.outcome = IF out.raised THEN "raised" ELSE "returned",
                                      !.result = [value |-> out.value]]
            /\ UNCHANGED <<conversation, telephony>>

\* schedule_appointment, lines 213-263: the selection and its conversion by the
\* converter, which decides whether the try block or the except block stores
\* selected_appointment, converted_appointment and custom_time in the state
ConversionStep ==
    \E args \in ArgChoices("schedule_appointment") :
        LET selected_appointment ==
                select_appointment(appointment_choice_of(args),
                                   Get(args, "custom_time", << >>))
            out == convert_relative_date_call(today, PyStr(selected_appointment))
            conversion == IF out.raised THEN "raises" ELSE "returns"
        IN  /\ last = NoCall
            /\ last' = [NoCall EXCEPT
                          !.tool = "conversion_step",
                          !.args = args,
                          !.outcome = "returned",
                          !.conversion = conversion,
                          !.result = [selected_appointment  |-> selected_appointment,
                                      converted_appointment |->
                                          converted_appointment_of(
                                              today, selected_appointment, conversion)]]
            /\ state' = schedule_appointment(args, state, today, conversion, "sent").state
            /\ UNCHANGED <<today, current_node, task_cancelled, history, verdicts, clean,
                           running, clock, telephony>>

DateNext ==
    \/ GetNextWeekday
    \/ ConvertRelativeDate
    \/ ConversionStep

DateSpec == DateInit /\ [][DateNext]_vars

(***************************************************************************)
(* run_bot's transport events: participants and dial-in.                   *)
(***************************************************************************)
\* on_dialin_ready events followed in one call
MaxDialinEvents == 6

\* what the Twilio call update may do
TwilioUpdates == { "succeeds", "raises" }

\* on_dialin_ready that sets the flag before it calls the Twilio update
OnDialinReadyMutFlagFirst(forwarded, update) ==
    IF forwarded
    THEN [call_already_forwarded |-> forwarded, updated |-> FALSE, raised |-> FALSE]
    ELSE [call_already_forwarded |-> TRUE, updated |-> TRUE, raised |-> update = "raises"]

\* on_dialin_ready that never sets the flag
OnDialinReadyMutNoFlag(forwarded, update) ==
    IF forwarded
    THEN [call_already_forwarded |-> forwarded, updated |-> FALSE, raised |-> FALSE]
    ELSE [call_already_forwarded |-> forwarded, updated |-> TRUE,
          raised |-> update = "raises"]

\* on_dialin_ready, lines 710-730: the flag it leaves, whether it called the
\* Twilio update, and whether it raised
on_dialin_ready(forwarded, update) ==
    IF forwarded
    THEN [call_already_forwarded |-> forwarded, updated |-> FALSE, raised |-> FALSE]
    ELSE IF update = "succeeds"
    THEN [call_already_forwarded |-> TRUE, updated |-> TRUE, raised |-> FALSE]
    ELSE [call_already_forwarded |-> forwarded, updated |-> TRUE, raised |-> TRUE]

OnDialinReady ==
    /\ ~task_cancelled
    /\ LoopFree
    /\ Len(dialin_log) < MaxDialinEvents
    /\ \E update \in TwilioUpdates :
         LET out == on_dialin_ready(call_already_forwarded, update)
         IN  /\ call_already_forwarded' = out.call_already_forwarded
             /\ dialin_log' = Append(dialin_log,
                                     [event |-> "on_dialin_ready",
                                      updated |-> out.updated, raised |-> out.raised])
    /\ UNCHANGED <<conversation, last>>

\* on_dialin_error, lines 740-745: logs the error; the task is left as it is
OnDialinError ==
    /\ ~task_cancelled
    /\ LoopFree
    /\ Len(dialin_log) < MaxDialinEvents
    /\ dialin_log' = Append(dialin_log,
                            [event |-> "on_dialin_error",
                             updated |-> FALSE, raised |-> FALSE])
    /\ UNCHANGED <<conversation, last, call_already_forwarded>>

DialNext ==
    \/ OnFirstParticipantJoined
    \/ OnParticipantLeft
    \/ OnDialinReady
    \/ OnDialinError

DialSpec == Init /\ [][DialNext]_vars

(***************************************************************************)
(* The lifetime of the one DateConverter instance (bot.py line 41): calls  *)
(* of convert_relative_date and get_formatted_date_time, any number of     *)
(* them, while the days pass.                                              *)
(***************************************************************************)
\* the days that may pass after DateConverter() was constructed
MaxDaysPassed == 3

\* a converter that asks datetime.now() on every call
ConverterTodayMutNow(captured, now) == now

\* the date the converter computes from: self.today, captured by __init__
\* (line 13) and read at lines 48, 69, 74, 99, 104, 136; `now` is what
\* datetime.now() would give at the time of the call
converter_today(captured, now) == captured

\* DateConverter.get_formatted_date_time, lines 106-152
get_formatted_date_time(today_, relative_date) ==
    LET s          == Lower(relative_date)
        time_match == TimeSearch(s)
    IN  [formatted_date |-> convert_relative_date(today_, relative_date),
         original       |-> relative_date,
         time_info      |-> IF time_match.found
                            THEN Some([hour   |-> ParseInt(time_match.hour),
                                       period |-> Upper(time_match.period)])
                            ELSE None,
         date_object    |->
            IF Contains(s, kw_tomorrow) THEN Some(AddDays(today_, 1))
            ELSE IF Contains(s, kw_monday) THEN Some(get_next_weekday(today_, 0))
            ELSE IF Contains(s, kw_tuesday) THEN Some(get_next_weekday(today_, 1))
            ELSE IF Contains(s, kw_wednesday) THEN Some(get_next_weekday(today_, 2))
            ELSE IF Contains(s, kw_thursday) THEN Some(get_next_weekday(today_, 3))
            ELSE IF Contains(s, kw_friday) THEN Some(get_next_weekday(today_, 4))
            ELSE None]

\* the phrases the instance is asked to convert
LifetimeInputs ==
    { slot_tomorrow_at_3pm, slot_next_monday_at_10am, slot_next_wednesday_at_11am,
      time_friday_at_2pm, kw_next_week, custom_time_requested }

\* a day passes
Tick ==
    /\ ToOrdinal(clock) - ToOrdinal(today) < MaxDaysPassed
    /\ clock' = NextDay(clock)
    /\ UNCHANGED <<today, current_node, state, task_cancelled, history, last, verdicts,
                   clean, telephony, running>>

\* date_converter.convert_relative_date(relative_date), called on the day `clock`
ConvertAgain ==
    \E relative_date \in LifetimeInputs :
        /\ last' = [NoCall EXCEPT
                      !.tool = "convert_relative_date",
                      !.args = [relative_date |-> relative_date],
                      !.outcome = "returned",
                      !.result = [value |-> convert_relative_date(
                                               converter_today(today, clock),
                                               relative_date)]]
                   @@ [at |-> clock]
        /\ UNCHANGED <<conversation, telephony>>

\* date_converter.get_formatted_date_time(relative_date), called on the day `clock`
GetFormattedDateTime ==
    \E relative_date \in LifetimeInputs :
        /\ last' = [NoCall EXCEPT
                      !.tool = "get_formatted_date_time",
                      !.args = [relative_date |-> relative_date],
                      !.outcome = "returned",
                      !.result = get_formatted_date_time(converter_today(today, clock),
                                                         relative_date)]
                   @@ [at |-> clock]
        /\ UNCHANGED <<conversation, telephony>>

LifetimeNext ==
    \/ Tick
    \/ ConvertAgain
    \/ GetFormattedDateTime

LifetimeSpec == DateInit /\ [][LifetimeNext]_vars

(***************************************************************************)
(* The handlers on the event loop: every handler the flow manager calls    *)
(* (lines 72-296) and the transport callbacks.  collect_insurance and      *)
(* schedule_appointment run write by write; the other handlers make at     *)
(* most one write and run in one step.  A handler that has started holds   *)
(* the loop until it returns or awaits, and the callbacks and the other    *)
(* handlers wait for a free loop.                                          *)
(***************************************************************************)
\* the dial-in events of one such conversation
MaxLoopEvents == 1

\* handlers that await after their first write
HandlerAwaitsMutAfterFirstWrite(tool) == {1}

\* the awaits of a handler body, each as the number of state writes made before
\* it: no handler body (lines 72-296) has an await, those of collect_insurance
\* (lines 103-119) and schedule_appointment (lines 209-289) included; the
\* validator, the converter and the sender are called as plain functions
handler_awaits(tool) == {}

\* the assignments to flow_manager.state a handler makes, in the order of its
\* source: lines 112-113, and lines 225, 250-252 (the except branch, lines
\* 258-260, writes the same keys in the same order)
handler_writes(tool, args, today_, conversion) ==
    IF tool = "collect_insurance"
    THEN << <<"payer_name", args["payer_name"]>>, <<"payID", args["payID"]>> >>
    ELSE LET appointment_choice   == appointment_choice_of(args)
             custom_time          == Get(args, "custom_time", << >>)
             selected_appointment == select_appointment(appointment_choice, custom_time)
         IN  (IF says_nothing_works(appointment_choice)
              THEN << <<"custom_time", custom_time>> >> ELSE << >>)
             \o << <<"selected_appointment", selected_appointment>>,
                   <<"converted_appointment",
                     converted_appointment_of(today_, selected_appointment, conversion)>>,
                   <<"custom_time", custom_time>> >>

\* the coroutine of a handler call that has read its arguments; `out` is what
\* the handler returns
Started(tool, args, out, conversion) ==
    Some([tool |-> tool, args |-> args, out |-> out, conversion |-> conversion,
          writes |-> handler_writes(tool, args, today, conversion),
          done |-> 0, suspended |-> FALSE])

\* collect_insurance is called: a missing argument raises at once (lines
\* 107-108), otherwise the coroutine goes on to its writes
StartInsurance ==
    /\ CanInvoke("collect_insurance")
    /\ \E args \in ArgChoices("collect_insurance") :
         LET out == collect_insurance(args, state)
         IN  IF out.raised
             THEN Dispatch("collect_insurance", args, out, "none", None, "none")
             ELSE /\ running' = Started("collect_insurance", args, out, "none")
                  /\ UNCHANGED <<today, current_node, state, task_cancelled, history, last,
                                 verdicts, clean, telephony, clock>>

\* schedule_appointment is called
StartSchedule ==
    /\ CanInvoke("schedule_appointment")
    /\ \E args \in EveryOutcomeArgs, conversion \in Conversions :
         /\ running' = Started("schedule_appointment", args,
                               schedule_appointment(args, state, today, conversion, "sent"),
                               conversion)
         /\ UNCHANGED <<today, current_node, state, task_cancelled, history, last,
                        verdicts, clean, telephony, clock>>

\* the running handler makes its next assignment to flow_manager.state
HandlerWrite ==
    /\ running # None
    /\ running[1].tool \in Tools
    /\ running[1].writes # << >>
    /\ LET r == running[1]
           w == Head(r.writes)
       IN  /\ state' = Put(state, w[1], w[2])
           /\ running' = Some([r EXCEPT !.writes = Tail(r.writes),
                                        !.done = r.done + 1,
                                        !.suspended = (r.done + 1) \in handler_awaits(r.tool)])
    /\ UNCHANGED <<today, current_node, task_cancelled, history, last, verdicts, clean,
                   telephony, clock>>

\* the running handler returns its result and next node, and the flow manager
\* makes the transition
HandlerReturn ==
    /\ running # None
    /\ running[1].tool \in Tools
    /\ running[1].writes = << >>
    /\ LET r == running[1]
       IN  Dispatch(r.tool, r.args, [r.out EXCEPT !.state = state], "none", None,
                    r.conversion)

\* a dial-in callback
LoopDialin ==
    /\ Len(dialin_log) < MaxLoopEvents
    /\ (OnDialinReady \/ OnDialinError)

LoopNext ==
    \/ OnFirstParticipantJoined
    \/ OnParticipantLeft
    \/ LoopDialin
    \/ CollectName
    \/ CollectDateOfBirth
    \/ StartInsurance
    \/ CollectReferral
    \/ CollectChiefComplaint
    \/ CollectAddress
    \/ CollectContactInfo
    \/ StartSchedule
    \/ EndQuote
    \/ HandlerWrite
    \/ HandlerReturn

LoopSpec == Init /\ [][LoopNext]_vars

(***************************************************************************)
(* The validator on its own: one validate_address call per behaviour, for  *)
(* every geocoder outcome below, recorded in `last`.                       *)
(***************************************************************************)
\* what self.gmaps.geocode(address) may do: raise, return no result, or return
\* results whose first has any of the four components and any location type; a
\* first result may also lack its keys
GeocodeInputs ==
    { [kind |-> "api_error"], [kind |-> "exception"],
      [kind |-> "results", results |-> << >>],
      [kind |-> "results", results |-> << [place_id |-> "ChIJ"] >>] }
    \cup { [kind |-> "results", results |->
              << GeocodeResult(
                   SelectSeq(<<street_number, route, locality, admin_area>>,
                             LAMBDA c : c \in cs),
                   location_type, "123 Main St, Springfield, IL 62701, USA") >> \o rest]
             : cs \in SUBSET {street_number, route, locality, admin_area},
               location_type \in {"ROOFTOP", "RANGE_INTERPOLATED", "GEOMETRIC_CENTER",
                                  "APPROXIMATE", ""},
               rest \in { << >>,
                          << GeocodeResult(<<street_number, route, locality>>, "ROOFTOP",
                                           "9 Elm St, Springfield, IL 62701, USA") >> } }

ValidateAddress ==
    /\ last = NoCall
    /\ \E g \in GeocodeInputs :
         last' = [NoCall EXCEPT
                    !.tool = "validate_address", !.outcome = "returned",
                    !.validator = Some([raised |-> FALSE, geocode |-> Some(g),
                                        value |-> Some(validate_address(g))])]
    /\ UNCHANGED <<conversation, telephony>>

AddressSpec == Init /\ [][ValidateAddress]_vars

(***************************************************************************)
(* Properties.                                                             *)
(***************************************************************************)
\* the elements of a sequence
Range(seq) == {seq[i] : i \in 1..Len(seq)}

\* the latest call was dispatched to `tool`'s handler, which returned
LastReturned(tool) == last.tool = tool /\ last.outcome = "returned"

\* the latest call was a collect_address whose validator call did `verdict`
LastAddress(verdict) ==
    /\ LastReturned("collect_address")
    /\ last.validator # None
    /\ IF verdict = "raised" THEN last.validator[1].raised
       ELSE /\ ~last.validator[1].raised
            /\ last.validator[1].value[1].is_valid = (verdict = "valid")

\* the tool set each node declares, as the flow description lists it
DeclaredTools ==
    [initial                |-> {"collect_name"},
     date_of_birth          |-> {"collect_date_of_birth"},
     insurance              |-> {"collect_insurance"},
     referral               |-> {"collect_referral", "collect_chief_complaint"},
     chief_complaint        |-> {"collect_chief_complaint"},
     address                |-> {"collect_address"},
     address_retry          |-> {"collect_address"},
     contact_info           |-> {"collect_contact_info"},
     appointment_scheduling |-> {"schedule_appointment", "end_quote"},
     end                    |-> {}]

\* C1: in every node the flow reaches, the node declares exactly the tools listed
\* for it; a call of a listed tool is dispatched to its handler, and a call of any
\* other tool is rejected and leaves the session state and the current node as
\* they were.
C1_OnlyDeclaredToolsAccepted ==
    [][ /\ current_node' # NoNode =>
             /\ current_node'.name \in DOMAIN DeclaredTools
             /\ ToolNames(current_node') = DeclaredTools[current_node'.name]
        /\ last' # last =>
             /\ last'.node = current_node.name
             /\ IF last'.tool \in DeclaredTools[current_node.name]
                THEN last'.outcome \in {"returned", "raised"}
                ELSE /\ last'.outcome = "rejected"
                     /\ state' = state
                     /\ current_node' = current_node ]_vars

C1_Witness ==
    /\ last.outcome = "rejected"
    /\ last.tool = "collect_chief_complaint"
    /\ last.node = "appointment_scheduling"
    /\ "selected_appointment" \notin DOMAIN state

CanonicalTools ==
    { "collect_name", "collect_date_of_birth", "collect_insurance", "collect_referral",
      "collect_chief_complaint", "collect_address", "collect_contact_info",
      "schedule_appointment" }

CanonicalPath ==
    << "initial", "date_of_birth", "insurance", "referral", "chief_complaint",
       "address", "contact_info", "appointment_scheduling", "end" >>

\* C2: when each of the eight tools was called once with arguments its schema
\* declares and every input was valid on the first attempt, the flow has visited
\* the nine nodes initial, date_of_birth, insurance, referral, chief_complaint,
\* address, contact_info, appointment_scheduling, end, in that order.
C2_CanonicalPathVisited ==
    (clean.ok /\ clean.tools = CanonicalTools) => history = CanonicalPath

\* the address part of the nodes entered
AddressPath ==
    SelectSeq(history, LAMBDA n : n \in {"address", "address_retry", "contact_info"})

\* C3: with the validator reporting invalid, invalid, then valid on three
\* collect_address calls, the flow enters address_retry exactly twice and then
\* contact_info, and the session state has no "address" key until the valid
\* attempt has completed.
C3_RetryTwiceThenAdvance ==
    /\ verdicts \in { << >>, <<"invalid">>, <<"invalid", "invalid">> } =>
         /\ "address" \notin DOMAIN state
         /\ current_node.name # "contact_info"
         /\ Retries = Len(verdicts)
    /\ verdicts = <<"invalid", "invalid", "valid">> =>
         /\ AddressPath = <<"address", "address_retry", "address_retry", "contact_info">>
         /\ "address" \in DOMAIN state

C3_Witness ==
    /\ verdicts = <<"invalid", "invalid", "valid">>
    /\ current_node.name = "contact_info"

\* C4: after a collect_address call whose validator reported the address invalid,
\* the result's address is the empty string, address_validation_error holds the
\* validator's reason, and the current node is a retry node that declares exactly
\* collect_address and whose task prompt contains that reason.
C4_InvalidAddressRetries ==
    LastAddress("invalid") =>
        LET reason == last.validator[1].value[1].error_message[1]
        IN  /\ last.result.address = ""
            /\ "address_validation_error" \in DOMAIN state
            /\ state["address_validation_error"] = reason
            /\ current_node.name = "address_retry"
            /\ ToolNames(current_node) = {"collect_address"}
            /\ reason \in Range(current_node.task_messages[1].content)

C4_Witness ==
    /\ LastAddress("invalid")
    /\ state["address_validation_error"] = msg_not_found
    /\ current_node.name = "address_retry"

\* C5: after a collect_address call whose validator call raised, the raw input
\* address is stored under "address", the result carries that same address,
\* and the current node is contact_info.
C5_ValidatorRaiseAcceptsRaw ==
    LastAddress("raised") =>
        /\ "address" \in DOMAIN state
        /\ state["address"] = last.args["address"]
        /\ last.result.address = last.args["address"]
        /\ current_node.name = "contact_info"

C5_Witness ==
    /\ LastAddress("raised")
    /\ state["address"] = "123 main street springfield"
    /\ last.node = "address_retry"

\* C6: after a collect_address call during which the geocoding service failed
\* (API error or any other exception), the raw address is accepted unchanged and
\* the current node is contact_info, not address_retry.
C6_OutageNeverBlocks ==
    ( /\ LastReturned("collect_address")
      /\ last.validator # None
      /\ ~last.validator[1].raised
      /\ last.validator[1].geocode[1].kind \in {"api_error", "exception"} ) =>
        /\ current_node.name = "contact_info"
        /\ "address" \in DOMAIN state
        /\ state["address"] = last.args["address"]

\* C7: after a collect_address call whose validator reported the address valid,
\* "address" holds the validator's formatted address, the result carries that
\* same formatted address, and the current node is contact_info.
C7_ValidAddressStoresFormatted ==
    LastAddress("valid") =>
        LET formatted == last.validator[1].value[1].address_data[1].formatted_address
        IN  /\ "address" \in DOMAIN state
            /\ state["address"] = formatted
            /\ last.result.address = formatted
            /\ current_node.name = "contact_info"

C7_Witness ==
    /\ LastAddress("valid")
    /\ state["address"] = "123 Main St, Springfield, IL 62701, USA"
    /\ state["address"] # last.args["address"]

\* C8: every schedule_appointment call returns and leaves the flow in the end
\* node, whatever the choice and custom time, whether the conversion returned or
\* raised, and whether the sender returned true, returned false or raised.
C8_ScheduleAlwaysEnds ==
    (last.tool = "schedule_appointment" /\ last.outcome # "rejected") =>
        /\ last.node = "appointment_scheduling"
        /\ last.outcome = "returned"
        /\ current_node.name = "end"
        /\ Range(history) \cap {"end"} # {}

C8_Witness ==
    /\ LastReturned("schedule_appointment")
    /\ last.conversion = "raises"
    /\ last.email[1].delivery = "raises"
    /\ current_node.name = "end"

\* the choice of the latest schedule_appointment call mentions `day`, in any case
Mentions(day) ==
    /\ "appointment_choice" \in DOMAIN last.args
    /\ Contains(Lower(last.args["appointment_choice"]), day)

MentionsNothingWorks ==
    Mentions(kw_nothing_works) \/ Mentions(kw_none_work) \/ Mentions(kw_not_available)

MentionsAnythingWorks ==
    Mentions(kw_anything_works) \/ Mentions(kw_any_time) \/ Mentions(kw_all_work)

\* the slot of the offered day, among those mentioned, that was presented first
EarliestMentionedSlot ==
    IF Mentions(kw_tomorrow) THEN slot_tomorrow_at_3pm
    ELSE IF Mentions(kw_monday) THEN slot_next_monday_at_10am
    ELSE slot_next_wednesday_at_11am

MentionsOfferedDay == Mentions(kw_tomorrow) \/ Mentions(kw_monday) \/ Mentions(kw_wednesday)

\* C9 as stated: whenever the choice mentions one or more of the offered days, in
\* any case, the selected slot is that of the earliest mentioned day in the order
\* tomorrow, Monday, Wednesday.
C9_EarliestDayAlways ==
    (LastReturned("schedule_appointment") /\ MentionsOfferedDay) =>
        state["selected_appointment"] = EarliestMentionedSlot

\* C9 (amended): when the choice contains none of the nothing-works phrases and
\* none of the anything-works phrases and mentions one or more of the offered
\* days, in any case, the selected slot is that of the earliest mentioned day in
\* the order tomorrow, Monday, Wednesday.
C9_EarliestDayWins ==
    ( /\ LastReturned("schedule_appointment")
      /\ MentionsOfferedDay
      /\ ~MentionsNothingWorks
      /\ ~MentionsAnythingWorks ) =>
        state["selected_appointment"] = EarliestMentionedSlot

C9_Witness ==
    /\ LastReturned("schedule_appointment")
    /\ "appointment_choice" \in DOMAIN last.args
    /\ last.args["appointment_choice"] = choice_monday_or_wednesday
    /\ state["selected_appointment"] = slot_next_monday_at_10am

\* C10 as stated: a choice that matches no recognized keyword, and a choice that
\* contains an anything-works phrase, select "tomorrow at 3pm".
C10_DefaultAlways ==
    ( /\ LastReturned("schedule_appointment")
      /\ \/ MentionsAnythingWorks
         \/ ~(MentionsNothingWorks \/ MentionsOfferedDay) ) =>
        state["selected_appointment"] = slot_tomorrow_at_3pm

\* C10 (amended): a choice that matches no recognized keyword, and a choice that
\* contains an anything-works phrase and none of the nothing-works phrases,
\* select "tomorrow at 3pm".
C10_DefaultIsFirstSlot ==
    ( /\ LastReturned("schedule_appointment")
      /\ ~MentionsNothingWorks
      /\ MentionsAnythingWorks \/ ~MentionsOfferedDay ) =>
        state["selected_appointment"] = slot_tomorrow_at_3pm

C10_Witness ==
    /\ LastReturned("schedule_appointment")
    /\ "appointment_choice" \in DOMAIN last.args
    /\ last.args["appointment_choice"] = choice_free_friday
    /\ state["selected_appointment"] = slot_tomorrow_at_3pm

OfferedSlots ==
    { slot_tomorrow_at_3pm, slot_next_monday_at_10am, slot_next_wednesday_at_11am }

\* the latest call was a schedule_appointment that returned, with this choice
LastChoice(choice) ==
    /\ LastReturned("schedule_appointment")
    /\ "appointment_choice" \in DOMAIN last.args
    /\ last.args["appointment_choice"] = choice

\* C11: an appointment_choice stating that none of the offered slots work, such
\* as "none of those work", is classified as the custom-time outcome: the
\* selected appointment is none of the three offered slots.
C11_NoneWorkIsCustomTime ==
    ( \E choice \in { choice_none_of_those_work, choice_nothing_works,
                      choice_not_available_any_time, choice_none_work_tomorrow } :
          LastChoice(choice) ) =>
        state["selected_appointment"] \notin OfferedSlots

\* C12: when the appointment_choice names a time that is not one of the offered
\* slots ("I'm free Friday at 2pm"), the selected appointment is the caller's own
\* time ("Friday at 2pm"), and that time is what is converted to a calendar date
\* and stored as converted_appointment.
C12_OwnTimeSelected ==
    LastChoice(choice_free_friday) =>
        /\ state["selected_appointment"] = time_friday_at_2pm
        /\ last.conversion = "returns" =>
             state["converted_appointment"] = convert_relative_date(today, time_friday_at_2pm)

\* C19: a call that omits a parameter its tool's schema marks required is
\* rejected: no session state key is written and the current node does not
\* change.
C19_MissingRequiredRejected ==
    [][ ( /\ last' # last
          /\ last'.outcome \in {"returned", "raised"}
          /\ ~(ToolOf(current_node, last'.tool).required \subseteq DOMAIN last'.args) ) =>
            /\ last'.outcome = "raised"
            /\ state' = state
            /\ current_node' = current_node ]_vars

(***************************************************************************)
(* Properties of the date converter.                                       *)
(***************************************************************************)
TwoDigits(n) == <<DigitChars[(n \div 10) + 1], DigitChars[(n % 10) + 1]>>

\* a date written `Month DD, YYYY`
MonthDDYYYY(d) ==
    MonthNames[d.month] \o <<" ">> \o TwoDigits(d.day) \o <<",", " ">>
    \o TwoDigits(d.year \div 100) \o TwoDigits(d.year % 100)

StartsWith(s, prefix) ==
    Len(s) >= Len(prefix) /\ SubSeq(s, 1, Len(prefix)) = prefix

\* the latest call was convert_relative_date on a str
LastConverted ==
    /\ last.tool = "convert_relative_date"
    /\ last.args.relative_date.is_str

\* the phrase of the latest convert_relative_date call, and what it returned
LastPhrase == last.args.relative_date.chars

LastConversion == last.result.value

\* the latest phrase contains the keyword, in any case
PhraseHas(keyword) == Contains(Lower(LastPhrase), keyword)

PhraseHasWeekday(days) == \E w \in days : PhraseHas(WeekdayNames[w + 1])

\* the latest phrase has a clock time
PhraseHasTime == PhraseHas(kw_am) \/ PhraseHas(kw_pm)

\* the latest conversion is date `d`, written `Month DD, YYYY`, alone when the
\* phrase has no clock time
ConvertedTo(d) ==
    /\ LastConversion.is_str
    /\ StartsWith(LastConversion.chars, MonthDDYYYY(d))
    /\ ~PhraseHasTime => LastConversion.chars = MonthDDYYYY(d)

\* C13: for every weekday of today and every requested weekday,
\* _get_next_weekday returns a date on the requested weekday, strictly after
\* today and at most 7 days ahead; a phrase naming a weekday, with or without
\* "next", converts to that same date.
C13_NextWeekdayStrictlyAhead ==
    /\ last.tool = "_get_next_weekday" =>
         /\ Weekday(last.result.value) = last.args.weekday
         /\ ToOrdinal(last.result.value) - ToOrdinal(today) \in 1..7
    /\ \A w \in 0..6 :
         (last.tool = "convert_relative_date" /\ LastConverted
          /\ LastPhrase \in WeekdayPhrases(w)) =>
             LastConversion = PyStr(MonthDDYYYY(get_next_weekday(today, w)))

\* the first day after `d` that falls on weekday w
NextOccurrence(d, w) ==
    AddDays(d, CHOOSE k \in 1..7 : Weekday(AddDays(d, k)) = w)

\* C14: convert_relative_date recognizes each of the seven weekday names, Monday
\* through Sunday, optionally prefixed by "next", and converts it to the date of
\* the next future occurrence of that weekday.
C14_SevenWeekdaysRecognized ==
    \A w \in 0..6 :
        (last.tool = "convert_relative_date" /\ LastConverted
         /\ LastPhrase \in WeekdayPhrases(w)) =>
            ConvertedTo(NextOccurrence(today, w))

\* C15 as stated: a phrase containing "tomorrow" converts to today + 1 day, one
\* containing "next week" to today + 7 days, one containing "two weeks" or
\* "2 weeks" to today + 14 days, each written `Month DD, YYYY`.
C15_OffsetsAlways ==
    (last.tool = "convert_relative_date" /\ LastConverted) =>
        /\ PhraseHas(kw_tomorrow) => ConvertedTo(AddDays(today, 1))
        /\ PhraseHas(kw_next_week) => ConvertedTo(AddDays(today, 7))
        /\ (PhraseHas(kw_two_weeks) \/ PhraseHas(kw_2_weeks)) =>
             ConvertedTo(AddDays(today, 14))

\* C15 (amended): a phrase containing "tomorrow" converts to today + 1 day; a
\* phrase containing "next week" and neither "tomorrow" nor one of the names
\* Monday to Friday converts to today + 7 days; a phrase containing "two weeks"
\* or "2 weeks" and none of "tomorrow", the names Monday to Friday and "next week"
\* converts to today + 14 days; each written `Month DD, YYYY`.
C15_OffsetsInOrder ==
    (last.tool = "convert_relative_date" /\ LastConverted) =>
        /\ PhraseHas(kw_tomorrow) => ConvertedTo(AddDays(today, 1))
        /\ ( /\ PhraseHas(kw_next_week)
             /\ ~PhraseHas(kw_tomorrow)
             /\ ~PhraseHasWeekday(0..4) ) => ConvertedTo(AddDays(today, 7))
        /\ ( /\ PhraseHas(kw_two_weeks) \/ PhraseHas(kw_2_weeks)
             /\ ~PhraseHas(kw_tomorrow)
             /\ ~PhraseHasWeekday(0..4)
             /\ ~PhraseHas(kw_next_week) ) => ConvertedTo(AddDays(today, 14))

C15_Witness ==
    /\ last.tool = "convert_relative_date" /\ LastConverted
    /\ today = [year |-> 2025, month |-> 1, day |-> 13]
    /\ LastPhrase = <<" ","N","e","x","t"," ","W","e","e","k"," ">>
    /\ LastConversion.chars
         = <<"J","a","n","u","a","r","y"," ","2","0",","," ","2","0","2","5">>

\* C16: for every phrase that contains no recognized date keyword ("3pm",
\* "invalid date string", the empty string, or such a phrase in mixed case or
\* with spaces around), convert_relative_date returns its input unchanged,
\* character for character.
C16_UnrecognizedUnchanged ==
    ( /\ last.tool = "convert_relative_date" /\ LastConverted
      /\ ~PhraseHas(kw_tomorrow)
      /\ ~PhraseHasWeekday(0..6)
      /\ ~PhraseHas(kw_next_week)
      /\ ~PhraseHas(kw_two_weeks)
      /\ ~PhraseHas(kw_2_weeks) ) =>
        LastConversion = PyStr(LastPhrase)

\* the date a keyword of TimedKeywords stands for
KeywordDate(keyword) ==
    IF keyword = kw_tomorrow THEN AddDays(today, 1)
    ELSE IF keyword = kw_next_monday THEN NextOccurrence(today, 0)
    ELSE IF keyword = kw_friday THEN NextOccurrence(today, 4)
    ELSE IF keyword = kw_next_week THEN AddDays(today, 7)
    ELSE AddDays(today, 14)

\* C17: for a phrase with a recognized date keyword and a clock time h am or pm,
\* h in 1..12, convert_relative_date returns the date followed by " at ", the
\* same hour h, ":00 " and the period in upper case; with no clock time in the
\* phrase it returns only the date.
C17_ClockTimeAppended ==
    (last.tool = "convert_relative_date" /\ LastConverted) =>
        \A k \in TimedKeywords :
            /\ LastPhrase = k => LastConversion = PyStr(MonthDDYYYY(KeywordDate(k)))
            /\ \A h \in 1..12, g \in { << >>, <<" ">>, <<"\f">> }, p \in PeriodTexts :
                 LastPhrase = TimedPhrase(k, h, g, p) =>
                     LastConversion
                       = PyStr(MonthDDYYYY(KeywordDate(k)) \o <<" ","a","t"," ">>
                               \o (IF h >= 10 THEN TwoDigits(h) ELSE <<DigitChars[h + 1]>>)
                               \o <<":","0","0"," ">>
                               \o (IF p \in {kw_am, <<"A","M">>}
                                   THEN <<"A","M">> ELSE <<"P","M">>))

C17_Witness ==
    /\ last.tool = "convert_relative_date" /\ LastConverted
    /\ today = [year |-> 2025, month |-> 1, day |-> 16]
    /\ LastPhrase = <<"t","o","m","o","r","r","o","w"," ","a","t"," ","3","p","m">>
    /\ LastConversion.chars
         = <<"J","a","n","u","a","r","y"," ","1","7",","," ","2","0","2","5",
             " ","a","t"," ","3",":","0","0"," ","P","M">>

\* C18: convert_relative_date returns a value for every input and never raises,
\* so the conversion step of schedule_appointment always stores the converter's
\* value as converted_appointment.
C18_ConverterTotal ==
    /\ last.tool = "convert_relative_date" => last.outcome = "returned"
    /\ last.tool = "conversion_step" =>
         /\ last.conversion = "returns"
         /\ last.result.converted_appointment
              = convert_relative_date(today, last.result.selected_appointment)

C18_Witness ==
    /\ last.tool = "convert_relative_date"
    /\ last.args.relative_date = NotAStr
    /\ last.outcome = "returned"
    /\ last.result.value = NotAStr

(***************************************************************************)
(* Properties of the dial-in events.                                       *)
(***************************************************************************)
\* the on_dialin_ready events so far whose Twilio update succeeded
DialinReadies == { i \in 1..Len(dialin_log) : dialin_log[i].event = "on_dialin_ready" }

Forwardings == { i \in DialinReadies : dialin_log[i].updated /\ ~dialin_log[i].raised }

\* C20: once a forwarding update has succeeded, every later on_dialin_ready
\* makes no Twilio update and raises no error, so the call is forwarded
\* successfully at most once.
C20_ForwardedAtMostOnce ==
    /\ \A i \in Forwardings : \A j \in (i + 1)..Len(dialin_log) :
         ~dialin_log[j].updated /\ ~dialin_log[j].raised
    /\ Cardinality(Forwardings) <= 1
    /\ call_already_forwarded <=> Forwardings # {}

C20_Witness ==
    /\ Len(dialin_log) >= 4
    /\ 1..4 \subseteq DialinReadies
    /\ dialin_log[1].raised
    /\ Forwardings = {2}
    /\ ~dialin_log[3].updated /\ ~dialin_log[4].updated

\* the participant-left step that cancels the task
ParticipantLeftCancels == OnParticipantLeft /\ task_cancelled'

\* C21: once the first participant has joined, in every node of the flow (and
\* before the flow has a node, while the join handler is still at one of its
\* awaits) a participant-left event cancels the pipeline task; once the task is
\* cancelled it stays cancelled and no tool call is processed: the session state
\* and the latest call stay as they were, and the only change of node left is
\* the suspended join handler's initialize(), so end is never entered by a
\* transition after the event.
C21_ParticipantLeftCancels ==
    /\ []((Joined /\ ~task_cancelled) => ENABLED ParticipantLeftCancels)
    /\ [][task_cancelled
            => /\ task_cancelled'
               /\ UNCHANGED <<state, last>>
               /\ current_node' # current_node
                    => /\ current_node = NoNode
                       /\ current_node' = create_initial_node
                       /\ history' = <<create_initial_node.name>>
               /\ current_node' = current_node => history' = history]_vars

C21_Witness ==
    /\ task_cancelled
    /\ current_node.name = "appointment_scheduling"
    /\ last.tool = "collect_contact_info"
    /\ "end" \notin Range(history)

\* C22: once a dial-in error event has been handled the pipeline task is
\* cancelled, as it is after a participant-left event.
C22_DialinErrorCancels ==
    (\E i \in 1..Len(dialin_log) : dialin_log[i].event = "on_dialin_error")
        => task_cancelled

\* the latest call was of `tool`, made in `node`, with arguments that fit the
\* schema the node declares for it
LastConforming(node, tool) ==
    /\ last.tool = tool
    /\ last.node = node.name
    /\ last.outcome # "rejected"
    /\ Conforms(ToolOf(node, tool), last.args)

\* C23: collect_referral called in the referral node with arguments that fit its
\* declared schema (referral_name) returns, leaves that name in the state under
\* referral_doctor and makes chief_complaint the current node.
C23_ReferralWritesDoctor ==
    LastConforming(create_referral_node, "collect_referral")
        => /\ last.outcome = "returned"
           /\ "referral_doctor" \in DOMAIN state
           /\ state["referral_doctor"] = last.args["referral_name"]
           /\ current_node.name = "chief_complaint"

\* the dict `st` after the writes `w`
Overlay(st, w) ==
    [k \in (DOMAIN st) \cup (DOMAIN w) |-> IF k \in DOMAIN w THEN w[k] ELSE st[k]]

PlainCollectors ==
    { "collect_name", "collect_date_of_birth", "collect_insurance", "collect_contact_info" }

\* the node that declares a plain collector
CollectorNode(tool) ==
    CASE tool = "collect_name"          -> create_initial_node
      [] tool = "collect_date_of_birth" -> create_date_of_birth_node
      [] tool = "collect_insurance"     -> create_insurance_node
      [] tool = "collect_contact_info"  -> create_contact_info_node

\* the keys a plain collector is to write from the arguments `a`
OwnWrites(tool, a) ==
    CASE tool = "collect_name"          -> [name |-> a["name"]]
      [] tool = "collect_date_of_birth" -> [date_of_birth |-> a["date_of_birth"]]
      [] tool = "collect_insurance"     -> [payer_name |-> a["payer_name"],
                                            payID |-> a["payID"]]
      [] tool = "collect_contact_info"  ->
            [phone_number |-> a["phone_number"],
             email |-> IF "email" \in DOMAIN a THEN a["email"] ELSE ""]

\* the node that is to follow a plain collector
FixedNext(tool) ==
    CASE tool = "collect_name"          -> "date_of_birth"
      [] tool = "collect_date_of_birth" -> "insurance"
      [] tool = "collect_insurance"     -> "referral"
      [] tool = "collect_contact_info"  -> "appointment_scheduling"

\* a step that handles a call of `tool` carrying its required arguments
HandlesRequired(tool) ==
    /\ last' # last
    /\ last'.tool = tool
    /\ last'.outcome # "rejected"
    /\ ToolOf(CollectorNode(tool), tool).required \subseteq DOMAIN last'.args

\* C24: a call of collect_name, collect_date_of_birth, collect_insurance or
\* collect_contact_info that carries the required arguments returns, leaves the
\* state as it was except for the collector's own keys, which hold the supplied
\* values (email the empty string when omitted), and makes the collector's fixed
\* next node the current node.
C24_PlainCollectors ==
    [][\A tool \in PlainCollectors :
         HandlesRequired(tool)
            => /\ last'.outcome = "returned"
               /\ state' = Overlay(state, OwnWrites(tool, last'.args))
               /\ current_node'.name = FixedNext(tool)]_vars

C24_Witness ==
    /\ last.tool = "collect_contact_info"
    /\ last.outcome = "returned"
    /\ DOMAIN last.args = {"phone_number"}
    /\ DOMAIN state = {"name", "date_of_birth", "payer_name", "payID", "chief_complaint",
                       "address", "phone_number", "email"}
    /\ state["phone_number"] = last.args["phone_number"]
    /\ state["email"] = ""
    /\ current_node.name = "appointment_scheduling"

\* the confirmation attempt of the latest schedule_appointment call
LastEmail == last.email[1]

\* C25: for every outcome of the delivery attempt (sent, SES ClientError, another
\* exception, no client) send_appointment_confirmation returns a boolean that is
\* true only when the send call returned; and whatever the sender did, a raise
\* included, schedule_appointment returns and nothing escapes it.
C25_SenderNeverRaises ==
    /\ \A ses \in SesOutcomes :
         LET sent == send_appointment_confirmation(patient_data_of(state),
                                                   slot_tomorrow_at_3pm, ses)
         IN  sent \in BOOLEAN /\ (sent => ses = "sent")
    /\ (last.tool = "schedule_appointment" /\ last.outcome # "rejected")
         => /\ last.email # None
            /\ LastEmail.email_sent \in BOOLEAN
            /\ LastEmail.email_sent => LastEmail.delivery = "sent"
            /\ ~LastEmail.escaped
            /\ last.outcome = "returned"

C25_Witness ==
    /\ LastReturned("schedule_appointment")
    /\ LastEmail.delivery = "client_error"
    /\ ~LastEmail.email_sent
    /\ ~LastEmail.escaped
    /\ current_node.name = "end"

\* every node configuration the flow can be in
FlowNodes ==
    { create_initial_node, create_date_of_birth_node, create_insurance_node,
      create_referral_node, create_chief_complaint_node, create_address_node,
      create_contact_info_node, create_appointment_scheduling_node, create_end_node }
    \cup { create_address_retry_node(m) :
             m \in { msg_not_found, msg_incomplete_components, msg_incomplete_number } }

\* the keys schedule_appointment writes
SchedulingKeys == { "selected_appointment", "converted_appointment", "custom_time" }

\* C26: only the appointment_scheduling node declares end_quote, so it is handled
\* there alone; the step that handles it leaves the session state exactly as it
\* was, makes no confirmation attempt and makes end the current node.
C26_EndQuoteShortCircuits ==
    /\ [](\A node \in FlowNodes :
            "end_quote" \in ToolNames(node) <=> node.name = "appointment_scheduling")
    /\ [][(last' # last /\ last'.tool = "end_quote" /\ last'.outcome # "rejected")
            => /\ last'.node = "appointment_scheduling"
               /\ last'.outcome = "returned"
               /\ state' = state
               /\ last'.email = None
               /\ current_node'.name = "end"]_vars

C26_Witness ==
    /\ LastReturned("end_quote")
    /\ last.node = "appointment_scheduling"
    /\ current_node.name = "end"
    /\ last.email = None
    /\ DOMAIN state \cap SchedulingKeys = {}
    /\ "phone_number" \in DOMAIN state

\* C27: the session state is empty when the conversation starts, and no step of
\* the conversation removes a key from it: the keys after a step include the
\* keys before it.
C27_KeysNeverRemoved ==
    /\ state = EmptyDict
    /\ [][DOMAIN state \subseteq DOMAIN state']_vars

C27_Witness ==
    /\ LastReturned("schedule_appointment")
    /\ { "name", "date_of_birth", "payer_name", "payID", "referral_doctor",
         "chief_complaint", "address", "address_validation_error", "phone_number",
         "email" } \cup SchedulingKeys \subseteq DOMAIN state
    /\ Retries > 0

\* the node carries the post-action that ends the conversation
EndsConversation(node) ==
    LET post_actions == Get(node, "post_actions", << >>)
    IN  \E i \in 1..Len(post_actions) : post_actions[i].type = "end_conversation"

\* C28: of all node configurations only end carries the end_conversation
\* post-action, and end declares no tool; once end is the current node no step
\* changes the current node or the session state.
C28_EndIsAbsorbing ==
    /\ [](\A node \in FlowNodes : EndsConversation(node) <=> node.name = "end")
    /\ [](ToolNames(create_end_node) = {})
    /\ [][current_node.name = "end" => UNCHANGED <<current_node, state>>]_vars

C28_Witness ==
    /\ current_node = create_end_node
    /\ last.outcome = "rejected"
    /\ last.node = "end"
    /\ last.tool = "schedule_appointment"
    /\ SchedulingKeys \subseteq DOMAIN state

\* a step that handles a call of `tool`, made in the node named `node` with
\* arguments that fit the schema declared there
HandlesConforming(node, tool) ==
    /\ last' # last
    /\ last'.tool = tool
    /\ last'.node = node.name
    /\ last'.outcome # "rejected"
    /\ Conforms(ToolOf(node, tool), last'.args)

\* C29: referral is the only node whose tools lead to different nodes: it and
\* appointment_scheduling alone declare more than one tool, and both tools of
\* appointment_scheduling lead to end.  Handled in the referral node with the
\* declared arguments, collect_referral leads to chief_complaint and
\* collect_chief_complaint to address; handled in the chief_complaint node,
\* collect_chief_complaint leads to address.  So whenever the address node has
\* been entered the chief_complaint key is in the session state.
C29_ReferralOnlyBranch ==
    /\ [](\A node \in FlowNodes :
            Cardinality(ToolNames(node)) > 1
                <=> node.name \in {"referral", "appointment_scheduling"})
    /\ [][\A tool \in ToolNames(create_appointment_scheduling_node) :
            (HandlesConforming(create_appointment_scheduling_node, tool)
                /\ last'.outcome = "returned") => current_node'.name = "end"]_vars
    /\ [][HandlesConforming(create_referral_node, "collect_referral")
            => current_node'.name = "chief_complaint"]_vars
    /\ [][\A node \in {create_referral_node, create_chief_complaint_node} :
            HandlesConforming(node, "collect_chief_complaint")
                => /\ current_node'.name = "address"
                   /\ "chief_complaint" \in DOMAIN state']_vars
    /\ []("address" \in Range(history) => "chief_complaint" \in DOMAIN state)

\* C30: after a schedule_appointment call the session state holds
\* selected_appointment, converted_appointment and custom_time;
\* converted_appointment is what the converter returns for the selected phrase,
\* or the selected phrase itself when the conversion raised, and it is the
\* appointment time handed to the confirmation sender.
C30_ConvertedOrFallback ==
    (last.tool = "schedule_appointment" /\ last.outcome # "rejected")
        => /\ last.outcome = "returned"
           /\ SchedulingKeys \subseteq DOMAIN state
           /\ state["selected_appointment"] = last.result.selected_appointment
           /\ state["custom_time"] = Get(last.args, "custom_time", << >>)
           /\ state["converted_appointment"] =
                 IF last.conversion = "raises"
                 THEN state["selected_appointment"]
                 ELSE convert_relative_date(today, state["selected_appointment"])
           /\ LastEmail.appointment_time = state["converted_appointment"]

C30_Witness ==
    /\ LastReturned("schedule_appointment")
    /\ last.conversion = "raises"
    /\ last.args = [appointment_choice |-> choice_tomorrow_or_monday]
    /\ state["selected_appointment"] = slot_tomorrow_at_3pm
    /\ state["converted_appointment"] = slot_tomorrow_at_3pm
    /\ LastEmail.appointment_time = slot_tomorrow_at_3pm
    /\ LastEmail.delivery = "sent"

\* the state key reaches the sender: under its own name in patient_data, or,
\* for the converted appointment, as the appointment time
HandedToSender(k) ==
    \/ k \in DOMAIN LastEmail.patient_data /\ LastEmail.patient_data[k] = state[k]
    \/ k = "converted_appointment" /\ LastEmail.appointment_time = state[k]

\* C31: the confirmation that schedule_appointment attempts is built from the
\* whole session state: every key the state holds after the call is in the data
\* handed to the sender.
C31_FullStateHanded ==
    LastReturned("schedule_appointment")
        => \A k \in DOMAIN state : HandedToSender(k)

\* every collect_address call so far was handled and judged invalid
AllInvalid == verdicts # << >> /\ \A i \in 1..Len(verdicts) : verdicts[i] = "invalid"

\* C32: however many collect_address calls in a row the validator has judged
\* invalid, the flow is in address_retry, which declares collect_address alone,
\* every one of those calls entered address_retry, "address" is unset and
\* contact_info has not been entered; so while every address is judged invalid
\* the flow does not leave address_retry.
C32_RetryUnbounded ==
    AllInvalid
        => /\ current_node.name = "address_retry"
           /\ ToolNames(current_node) = {"collect_address"}
           /\ Retries = Len(verdicts)
           /\ "address" \notin DOMAIN state
           /\ "contact_info" \notin Range(history)

C32_Witness ==
    /\ AllInvalid
    /\ Len(verdicts) = MaxRetries
    /\ current_node.name = "address_retry"
    /\ last.node = "address_retry"

\* the custom_time argument of the latest call, empty when it was left out
LastCustomTime == IF "custom_time" \in DOMAIN last.args THEN last.args["custom_time"] ELSE << >>

\* C33: the keyword rules are tried in a fixed order and the first match wins.
\* A choice containing "nothing works", "none work" or "not available" gives the
\* custom outcome whatever else it mentions: the selected appointment is the
\* supplied custom_time, or "Custom time requested" when that is empty.  A choice
\* without those phrases that contains "anything works", "any time" or "all
\* work" gives tomorrow at 3pm whatever days it mentions.  A choice with none of
\* the phrases is decided by its day keywords.
C33_RulesInOrder ==
    (LastReturned("schedule_appointment") /\ "appointment_choice" \in DOMAIN last.args)
        => LET selected == state["selected_appointment"]
           IN  /\ MentionsNothingWorks
                    => selected = IF LastCustomTime # << >> THEN LastCustomTime
                                  ELSE custom_time_requested
               /\ (~MentionsNothingWorks /\ MentionsAnythingWorks)
                    => selected = slot_tomorrow_at_3pm
               /\ (~MentionsNothingWorks /\ ~MentionsAnythingWorks /\ MentionsOfferedDay)
                    => /\ selected \in OfferedSlots
                       /\ selected = slot_next_wednesday_at_11am => Mentions(kw_wednesday)
                       /\ selected = slot_next_monday_at_10am => Mentions(kw_monday)

C33_Witness ==
    /\ LastChoice(choice_none_work_tomorrow)
    /\ Mentions(kw_tomorrow)
    /\ LastCustomTime = time_friday_at_2pm
    /\ state["selected_appointment"] = time_friday_at_2pm

\* the place of a node in the order of the flow; address_retry stands where
\* address does
NodeRank(name) ==
    CASE name = "initial"                -> 1
      [] name = "date_of_birth"          -> 2
      [] name = "insurance"              -> 3
      [] name = "referral"               -> 4
      [] name = "chief_complaint"        -> 5
      [] name \in {"address", "address_retry"} -> 6
      [] name = "contact_info"           -> 7
      [] name = "appointment_scheduling" -> 8
      [] name = "end"                    -> 9
      [] OTHER                           -> 0

\* the step handled a collect_address call that the validator judged invalid
\* and stays in the retry loop
RetryStep ==
    /\ last'.tool = "collect_address"
    /\ verdicts' = Append(verdicts, "invalid")
    /\ current_node'.name = "address_retry"

\* C35: every call of a tool the current node declares, made with the tool's
\* required arguments, moves the flow strictly forward in the order initial,
\* date_of_birth, insurance, referral, chief_complaint, address, contact_info,
\* appointment_scheduling, end, unless it is a collect_address call judged
\* invalid, which stays in address_retry: the retry loop is the only cycle.  So
\* a caller who keeps making such calls, with the validator at some point judging
\* an address valid or raising, reaches end after finitely many calls.
C35_EveryCallAdvances ==
    [][\A node \in FlowNodes : \A tool \in ToolNames(node) :
          HandlesConforming(node, tool)
             => \/ NodeRank(current_node'.name) > NodeRank(node.name)
                \/ RetryStep]_vars

\* the keys that are written once, each with the one tool that assigns it
WriterOf ==
    [name |-> "collect_name", date_of_birth |-> "collect_date_of_birth",
     payer_name |-> "collect_insurance", payID |-> "collect_insurance",
     referral_doctor |-> "collect_referral", chief_complaint |-> "collect_chief_complaint",
     address |-> "collect_address", phone_number |-> "collect_contact_info",
     email |-> "collect_contact_info", selected_appointment |-> "schedule_appointment"]

\* C36: no node other than address_retry is entered twice, and each of the keys
\* name, date_of_birth, payer_name, payID, referral_doctor, chief_complaint,
\* address, phone_number, email and selected_appointment is assigned by at most
\* one handler invocation: a step that assigns one of them finds it unset, and it
\* is the step of the key's own handler; once set the key keeps its value.
C36_WriteOnce ==
    /\ [](\A i, j \in 1..Len(history) :
            (i < j /\ history[i] = history[j]) => history[i] = "address_retry")
    /\ [][\A k \in DOMAIN WriterOf :
            /\ (k \in DOMAIN state) => (k \in DOMAIN state' /\ state'[k] = state[k])
            /\ (k \in DOMAIN state' /\ k \notin DOMAIN state)
                  => (last' # last /\ last'.tool = WriterOf[k])
            /\ (last' # last /\ last'.tool = WriterOf[k] /\ last'.outcome = "returned"
                  /\ k \in DOMAIN state')
                  => k \notin DOMAIN state]_vars

C36_Witness ==
    /\ current_node.name = "end"
    /\ DOMAIN WriterOf \subseteq DOMAIN state
    /\ history = << "initial", "date_of_birth", "insurance", "referral", "chief_complaint",
                    "address", "address_retry", "address_retry", "contact_info",
                    "appointment_scheduling", "end" >>

\* the geocoder outcome of the latest validate_address call and what the call
\* returned
LastGeocode == last.validator[1].geocode[1]

LastValidation == last.validator[1].value[1]

\* the first geocoder result has a component of one of these types
FirstResultHas(types) ==
    LET first == LastGeocode.results[1]
    IN  /\ "address_components" \in DOMAIN first
        /\ \E i \in 1..Len(first.address_components) :
              first.address_components[i].types \cap types # {}

FirstResultPrecise ==
    LET first == LastGeocode.results[1]
    IN  /\ "geometry" \in DOMAIN first
        /\ first.geometry.location_type \in {"ROOFTOP", "RANGE_INTERPOLATED"}

\* C37: validate_address reports an address valid exactly when the geocoder
\* returned at least one result whose first has a route component, a locality or
\* administrative_area_level_1 component, and a ROOFTOP or RANGE_INTERPOLATED
\* location type or a street_number component; the error message is None
\* exactly when the address is valid; and a valid address comes with address
\* data that holds the formatted address.
C37_ValidExactlyWhen ==
    LastReturned("validate_address")
        => /\ LastValidation.is_valid
                <=> /\ LastGeocode.kind = "results"
                    /\ LastGeocode.results # << >>
                    /\ FirstResultHas({"route"})
                    /\ FirstResultHas({"locality", "administrative_area_level_1"})
                    /\ FirstResultPrecise \/ FirstResultHas({"street_number"})
           /\ LastValidation.error_message = None <=> LastValidation.is_valid
           /\ LastValidation.is_valid
                => /\ LastValidation.address_data # None
                   /\ LastValidation.address_data[1].formatted_address
                         = LastGeocode.results[1].formatted_address

C37_Witness ==
    /\ LastReturned("validate_address")
    /\ LastValidation.is_valid
    /\ FirstResultHas({"administrative_area_level_1"})
    /\ ~FirstResultHas({"locality"})
    /\ ~FirstResultHas({"street_number"})
    /\ LastGeocode.results[1].geometry.location_type = "RANGE_INTERPOLATED"

\* a step that handles an on_dialin_ready event during which the update raised
UpdateRaises ==
    /\ Len(dialin_log') = Len(dialin_log) + 1
    /\ dialin_log'[Len(dialin_log')].event = "on_dialin_ready"
    /\ dialin_log'[Len(dialin_log')].raised

\* C38: an on_dialin_ready event whose Twilio update raises leaves
\* call_already_forwarded false and lets the exception out; so every
\* on_dialin_ready event that comes before any successful forwarding, after
\* however many failed ones, makes the update call again.
C38_FailedForwardRetried ==
    /\ [][UpdateRaises => ~call_already_forwarded /\ ~call_already_forwarded']_vars
    /\ [](\A j \in DialinReadies :
            (\A i \in 1..(j - 1) : i \notin Forwardings) => dialin_log[j].updated)

C38_Witness ==
    /\ Len(dialin_log) = 3
    /\ DialinReadies = 1..3
    /\ dialin_log[1].raised /\ dialin_log[2].raised
    /\ dialin_log[3].updated /\ ~dialin_log[3].raised
    /\ call_already_forwarded

\* address_validation_error in the dict: None when unset
ValidationError(st) ==
    IF "address_validation_error" \in DOMAIN st
    THEN Some(st["address_validation_error"]) ELSE None

\* the step handled a collect_address call that the validator judged `verdict`
AddressStep(verdict) ==
    /\ last'.tool = "collect_address"
    /\ verdicts' = Append(verdicts, verdict)

\* C39: only a collect_address call judged invalid writes
\* address_validation_error, and it writes the validator's reason for that call,
\* so the key holds the reason of the latest invalid attempt; a call judged
\* valid, or one whose validator raised, stores the accepted address and leaves
\* address_validation_error as it was.
C39_ErrorKeptAfterSuccess ==
    /\ [][ValidationError(state') # ValidationError(state) => AddressStep("invalid")]_vars
    /\ [][AddressStep("invalid")
            => ValidationError(state') = last'.validator[1].value[1].error_message]_vars
    /\ [][(AddressStep("valid") \/ AddressStep("raised"))
            => /\ ValidationError(state') = ValidationError(state)
               /\ "address" \in DOMAIN state']_vars

C39_Witness ==
    /\ LastAddress("valid")
    /\ verdicts = <<"invalid", "invalid", "valid">>
    /\ ValidationError(state) = Some(msg_service_error)
    /\ "address" \in DOMAIN state
    /\ current_node.name = "contact_info"

\* the latest call was made to the long-lived converter
LifetimeCall == last.tool \in {"convert_relative_date", "get_formatted_date_time"}

\* C40: no call of convert_relative_date or get_formatted_date_time changes the
\* date the converter captured when it was constructed, and every result is
\* computed from that date: whatever day the call is made on and whatever calls
\* came before, a call with the arguments of the call before it returns what
\* that call returned, and every result is the one the captured date gives.
C40_TodayCapturedOnce ==
    /\ [][today' = today]_vars
    /\ [][(LifetimeCall /\ last'.tool = last.tool /\ last'.args = last.args)
            => last'.result = last.result]_vars
    /\ [](LifetimeCall =>
            last.result =
              IF last.tool = "convert_relative_date"
              THEN [value |-> convert_relative_date(today, last.args.relative_date)]
              ELSE get_formatted_date_time(today, last.args.relative_date))

C40_Witness ==
    /\ last.tool = "get_formatted_date_time"
    /\ ToOrdinal(last.at) - ToOrdinal(today) = MaxDaysPassed
    /\ last.args.relative_date = slot_next_monday_at_10am
    /\ last.result.date_object = Some(get_next_weekday(today, 0))
    /\ last.result.date_object # Some(get_next_weekday(last.at, 0))

\* the session state holds part of what one handler writes: one of the
\* insurance keys without the other, or some of the scheduling keys without
\* the rest
Partial ==
    \/ ("payer_name" \in DOMAIN state) # ("payID" \in DOMAIN state)
    \/ DOMAIN state \cap SchedulingKeys \notin {{}, SchedulingKeys}

\* C34: a tool handler that has started runs to its return with nothing in between:
\* while it runs no participant-left or dial-in callback is handled and no other
\* handler starts, the session state and the current node are changed by that
\* handler alone, and what it leaves at its return is what the handler as a
\* whole writes.  So whenever another step can run, the session state holds no
\* partly applied handler: payer_name comes with payID, selected_appointment
\* with converted_appointment and custom_time.
C34_HandlersRunAlone ==
    /\ [](LoopFree => ~Partial)
    /\ [][(running # None /\ running[1].tool \in Tools)
            => /\ task_cancelled' = task_cancelled
               /\ UNCHANGED telephony
               /\ running' # None => /\ running'[1].tool = running[1].tool
                                     /\ running'[1].done = running[1].done + 1
                                     /\ current_node' = current_node
               /\ running' = None => /\ state' = running[1].out.state
                                     /\ current_node' = running[1].out.next_node[1]]_vars

C34_Witness ==
    /\ running # None
    /\ running[1].tool = "schedule_appointment"
    /\ "selected_appointment" \in DOMAIN state
    /\ "converted_appointment" \notin DOMAIN state
    /\ dialin_log # << >>
    /\ ~task_cancelled

====
